---- MODULE Spec2Model ----
(***************************************************************************)
(* Model of the deepfake-detection server: the POST /api/analyze pipeline  *)
(* (request validation middleware, multer upload, handleAnalyze and the    *)
(* three analyzers), GET /api/files/:filename, POST /api/cleanup-files and *)
(* the response-shaping helpers.                                           *)
(*                                                                         *)
(* Numbers: a confidence c of the program is the integer c * SCALE, a      *)
(* Math.random() draw r is the integer r * RAND_SCALE, sizes are bytes and *)
(* times are milliseconds.                                                 *)
(***************************************************************************)
EXTENDS Integers, Sequences, FiniteSets, TLC

---------------------------------------------------------------------------
(* Bounds of the model *)

\* number of POST /api/analyze requests
NumReq == 2
\* whole days the clock advances
MaxDays == 1
\* bytes a multipart body adds around the file part
MultipartOverhead == 200
\* frames in a vendor video response
MaxFrames == 2
\* milliseconds the clock advances besides whole days
MaxSkew == 1
\* file requests (GET /api/files/:filename, POST /api/cleanup-files) sent
MaxFileOps == 2
\* analyses one user asks for in a month
MaxRuns == 12
\* rows of analysis_history
NumRows == 3
\* POST /api/analyze requests one client sends
MaxPosts == 16
\* analysis attempts FileUpload starts
MaxAttempts == 5

\* times a visit gets a signed-in user
MaxSignIns == 1
\* analyses completed on the Dashboard
MaxCompleted == 2

---------------------------------------------------------------------------
(* Units and absent values *)

SCALE == 100000
RAND_SCALE == 1000
\* undefined for a number
NoNum == 0 - 1
\* Date.now() when the server starts
BaseNow == 0

\* Math.random() draws the model enumerates (each in [0, 1))
RandSamples == {0, 800, 999}

Max2(a, b) == IF a >= b THEN a ELSE b
Min2(a, b) == IF a <= b THEN a ELSE b

---------------------------------------------------------------------------
(* Strings are sequences of one-character strings *)

\* the upper-case letters of the model's alphabet are A, E, X, P, N, G
toLowerCase(s) ==
    LET LowerOf == [c \in {"A", "E", "X", "P", "N", "G"} |->
                      CASE c = "A" -> "a" [] c = "E" -> "e" [] c = "X" -> "x"
                        [] c = "P" -> "p" [] c = "N" -> "n" [] c = "G" -> "g"]
    IN  [i \in 1..Len(s) |-> IF s[i] \in DOMAIN LowerOf THEN LowerOf[s[i]] ELSE s[i]]

includes(s, sub) ==
    \E i \in 1..(Len(s) - Len(sub) + 1) : SubSeq(s, i, i + Len(sub) - 1) = sub

\* path.extname for a name without directory separators; d is the index
\* of the last "." of s, 0 when there is none
extname(s) ==
    LET D == {i \in 1..Len(s) : s[i] = "."}
        d == IF D = {} THEN 0 ELSE CHOOSE i \in D : \A j \in D : j <= i
    IN  IF d = 0 \/ (\A i \in 1..d : s[i] = ".") THEN << >> ELSE SubSeq(s, d, Len(s))

\* path.basename(name, ext) for a name without directory separators
basename(s, ext) ==
    IF Len(ext) > 0 /\ Len(s) > Len(ext) /\ SubSeq(s, Len(s) - Len(ext) + 1, Len(s)) = ext
    THEN SubSeq(s, 1, Len(s) - Len(ext))
    ELSE s

RECURSIVE ToDigits(_)
\* the decimal digits of a natural number, as a template literal prints it
ToDigits(n) ==
    LET Digit == << "0", "1", "2", "3", "4", "5", "6", "7", "8", "9" >>
    IN  IF n < 10 THEN << Digit[n + 1] >>
        ELSE ToDigits(n \div 10) \o << Digit[(n % 10) + 1] >>

startsWith(s, prefix) == Len(prefix) <= Len(s) /\ SubSeq(s, 1, Len(prefix)) = prefix

\* the characters of the model's alphabet that encodeURIComponent escapes
Escapes == [c \in {" ", "/", "%", "\\"} |->
              CASE c = " " -> << "%", "2", "0" >>
                [] c = "/" -> << "%", "2", "F" >>
                [] c = "%" -> << "%", "2", "5" >>
                [] c = "\\" -> << "%", "5", "C" >>]

RECURSIVE encodeURIComponent(_)
encodeURIComponent(s) ==
    IF s = << >> THEN << >>
    ELSE (IF Head(s) \in DOMAIN Escapes THEN Escapes[Head(s)] ELSE << Head(s) >>)
         \o encodeURIComponent(Tail(s))

RECURSIVE decodeURIComponent(_)
\* the decoding Express applies to a route parameter
decodeURIComponent(s) ==
    IF s = << >> THEN << >>
    ELSE IF Len(s) >= 3 /\ \E c \in DOMAIN Escapes : Escapes[c] = SubSeq(s, 1, 3)
    THEN << CHOOSE c \in DOMAIN Escapes : Escapes[c] = SubSeq(s, 1, 3) >>
         \o decodeURIComponent(SubSeq(s, 4, Len(s)))
    ELSE << Head(s) >> \o decodeURIComponent(Tail(s))

RECURSIVE Split(_, _)
\* the segments of a path between its "/" characters
Split(s, cur) ==
    IF s = << >> THEN << cur >>
    ELSE IF Head(s) = "/" THEN << cur >> \o Split(Tail(s), << >>)
    ELSE Split(Tail(s), Append(cur, Head(s)))

RECURSIVE Normalize(_, _)
\* drops empty and "." segments, lets ".." remove the segment before it
Normalize(segs, acc) ==
    IF segs = << >> THEN acc
    ELSE IF Head(segs) = << >> \/ Head(segs) = << "." >> THEN Normalize(Tail(segs), acc)
    ELSE IF Head(segs) = << ".", "." >>
    THEN Normalize(Tail(segs), IF acc = << >> THEN acc ELSE SubSeq(acc, 1, Len(acc) - 1))
    ELSE Normalize(Tail(segs), Append(acc, Head(segs)))

RECURSIVE JoinSegments(_)
JoinSegments(segs) ==
    IF segs = << >> THEN << >> ELSE << "/" >> \o Head(segs) \o JoinSegments(Tail(segs))

\* path.resolve of an absolute path
resolve(path) ==
    IF Normalize(Split(path, << >>), << >>) = << >> THEN << "/" >>
    ELSE JoinSegments(Normalize(Split(path, << >>), << >>))

---------------------------------------------------------------------------
(* shared/api.ts *)

SUPPORTED_IMAGE_TYPES == {"image/jpeg", "image/png", "image/webp"}
SUPPORTED_VIDEO_TYPES == {"video/mp4", "video/webm", "video/mov"}
SUPPORTED_AUDIO_TYPES == {"audio/wav", "audio/mp3", "audio/m4a", "audio/ogg"}
ALL_SUPPORTED_TYPES == SUPPORTED_IMAGE_TYPES \cup SUPPORTED_VIDEO_TYPES \cup SUPPORTED_AUDIO_TYPES

getFileCategory(mimeType) ==
    IF mimeType \in SUPPORTED_IMAGE_TYPES THEN "image"
    ELSE IF mimeType \in SUPPORTED_VIDEO_TYPES THEN "video"
    ELSE IF mimeType \in SUPPORTED_AUDIO_TYPES THEN "audio"
    ELSE "unsupported"

\* The members of the AnalysisResult union: the type-specific key, its
\* fields, and the fields of videoAnalysis.frameAnalysis.
AnalysisResultShape(type) ==
    CASE type = "image" ->
           [key |-> "imageAnalysis",
            fields |-> {"faceDetection", "manipulationIndicators", "technicalAnalysis"},
            frameFields |-> {}]
      [] type = "video" ->
           [key |-> "videoAnalysis",
            fields |-> {"frameAnalysis", "temporalAnalysis"},
            frameFields |-> {"totalFrames", "analyzedFrames", "frameRate", "keyFrames"}]
      [] type = "audio" ->
           [key |-> "audioAnalysis",
            fields |-> {"voiceCharacteristics", "technicalMetrics", "synthesisIndicators"},
            frameFields |-> {}]

---------------------------------------------------------------------------
(* Response shaping (routes/analyze.ts) *)

\* the thresholds compared with > instead of >=
getRiskLevel_exclusive(confidence) ==
    IF confidence * 10 > 8 * SCALE THEN "CRITICAL"
    ELSE IF confidence * 10 > 6 * SCALE THEN "HIGH"
    ELSE IF confidence * 10 > 4 * SCALE THEN "MEDIUM"
    ELSE "LOW"

getRiskLevel(confidence) ==
    IF confidence * 10 >= 8 * SCALE THEN "CRITICAL"
    ELSE IF confidence * 10 >= 6 * SCALE THEN "HIGH"
    ELSE IF confidence * 10 >= 4 * SCALE THEN "MEDIUM"
    ELSE IF confidence * 10 >= 2 * SCALE THEN "LOW"
    ELSE "LOW"

getConfidenceCategory(confidence) ==
    IF confidence * 10 >= 9 * SCALE THEN "VERY_HIGH"
    ELSE IF confidence * 10 >= 7 * SCALE THEN "HIGH"
    ELSE IF confidence * 10 >= 5 * SCALE THEN "MEDIUM"
    ELSE IF confidence * 10 >= 3 * SCALE THEN "LOW"
    ELSE "VERY_LOW"

\* The enhanced response of an analyzer: the fields handleAnalyze copies.
EnhancedResponse(confidence, synthetic, isDemo, key, fields, frameFields) ==
    [prob |-> confidence,
     is_synthetic |-> synthetic,
     riskLevel |-> getRiskLevel(confidence),
     confidenceCategory |-> getConfidenceCategory(confidence),
     analysisQuality |-> IF isDemo THEN "DEMO" ELSE "API",
     key |-> key,
     fields |-> fields,
     frameFields |-> frameFields]

generateEnhancedImageResponse(confidence, isDemo) ==
    EnhancedResponse(confidence, FALSE, isDemo, "imageAnalysis",
                     {"faceDetection", "manipulationIndicators", "technicalAnalysis"}, {})

generateEnhancedVideoResponse(confidence, isDemo) ==
    EnhancedResponse(confidence, FALSE, isDemo, "videoAnalysis",
                     {"frameAnalysis", "manipulationIndicators", "technicalAnalysis"},
                     {"totalFrames", "frameScores", "maxScore", "averageScore"})

generateEnhancedAudioResponse(confidence, isDeepfake, isDemo) ==
    EnhancedResponse(confidence, isDeepfake, isDemo, "audioAnalysis",
                     {"voiceCharacteristics", "syntheticIndicators", "qualityMetrics"}, {})

\* generateModelBreakdown. A probability p of the breakdown is the integer
\* p * ONE: a confidence c (an integer c * SCALE) times a factor k is
\* c * (k * 2000), a draw r (an integer r * RAND_SCALE) times k is
\* r * (k * 200000).
ONE == SCALE * 2000

\* confidence > 0.7
isHighConfidence(confidence) == confidence * 10 > 7 * SCALE

\* Math.min(Math.max(confidence * 0.15 + Math.random() * 0.05, 0), 0.2)
genAI(confidence, r) == Min2(Max2(confidence * 300 + r * 10000, 0), 40000000)

\* the face manipulation score without Math.min and Math.max
faceManipulation_unclamped(confidence, r) ==
    IF isHighConfidence(confidence)
    THEN confidence * 2000 + (r * 10000 - 5000000)
    ELSE confidence * 600 + (r * 10000 - 5000000)

\* isHighConfidence ? Math.min(confidence + (Math.random() * 0.05 - 0.025), 1)
\*                  : Math.max(confidence * 0.3 + (Math.random() * 0.05 - 0.025), 0)
faceManipulation(confidence, r) ==
    IF isHighConfidence(confidence)
    THEN Min2(confidence * 2000 + (r * 10000 - 5000000), ONE)
    ELSE Max2(confidence * 600 + (r * 10000 - 5000000), 0)

\* Math.max(0, Math.min(1, x))
clamp01(x) == Max2(0, Min2(ONE, x))

\* confidence < 0.3: Math.random() * k per diffusion model (k * 200000)
diffusionLow ==
    [stableDiffusion |-> 16000, dalle |-> 10000, midjourney |-> 12000, firefly |-> 8000,
     flux |-> 10000, imagen |-> 8000, ideogram |-> 6000, other |-> 14000, wan |-> 4000,
     reve |-> 6000, recraft |-> 8000, qwen |-> 4000, gpt4o |-> 6000]

\* otherwise: baseProb * k with baseProb = confidence * 0.7 (0.7 * k * 2000)
diffusionShare ==
    [stableDiffusion |-> 560, dalle |-> 392, midjourney |-> 490, firefly |-> 252,
     flux |-> 308, imagen |-> 280, ideogram |-> 210, other |-> 168, wan |-> 140,
     reve |-> 154, recraft |-> 182, qwen |-> 126, gpt4o |-> 224]

\* (Math.random() * 0.15) - 0.075
variation(r) == r * 30000 - 15000000

generateDiffusionScores(confidence, draw) ==
    [m \in DOMAIN diffusionShare |->
        IF confidence * 10 < 3 * SCALE
        THEN draw[<< "diffusion", m >>] * diffusionLow[m]
        ELSE clamp01(confidence * diffusionShare[m] + variation(draw[<< "diffusion", m >>]))]

\* ganBase = isHighConfidence ? confidence * 0.5 : confidence * 0.15
generateGANScores(confidence, draw) ==
    [styleGAN |-> clamp01((IF isHighConfidence(confidence) THEN confidence * 1000
                           ELSE confidence * 300)
                          + (draw[<< "gan", "styleGAN" >>] * 24000 - 12000000)),
     other |-> clamp01((IF isHighConfidence(confidence) THEN confidence * 350
                        ELSE confidence * 105)
                       + (draw[<< "gan", "other" >>] * 20000 - 10000000))]

\* the Math.random() calls of one generateModelBreakdown call
DrawKeys ==
    {<< "genAI", "genAI" >>, << "faceManipulation", "faceManipulation" >>,
     << "gan", "styleGAN" >>, << "gan", "other" >>, << "other", "faceManipulation" >>}
    \cup {<< "diffusion", m >> : m \in DOMAIN diffusionShare}

\* generateModelBreakdown(confidence) with the draws of its Math.random() calls
generateModelBreakdown(confidence, draw) ==
    [genAI |-> genAI(confidence, draw[<< "genAI", "genAI" >>]),
     faceManipulation |->
         faceManipulation(confidence, draw[<< "faceManipulation", "faceManipulation" >>]),
     diffusion |-> generateDiffusionScores(confidence, draw),
     gan |-> generateGANScores(confidence, draw),
     other |->
         [faceManipulation |->
              faceManipulation(confidence, draw[<< "other", "faceManipulation" >>]),
          deepfakeSwap |-> IF isHighConfidence(confidence)
                           THEN Min2(confidence * 1700, ONE) ELSE Max2(confidence * 400, 0),
          expression |-> IF isHighConfidence(confidence)
                         THEN Min2(confidence * 1300, ONE) ELSE Max2(confidence * 300, 0)]]

\* Math.random() > 0.8
isLikelyDeepfake(r1) == r1 * 10 > 8 * RAND_SCALE

\* the demo confidence of analyzeImage (both places) and of analyzeVideo
\* without credentials: r * 0.3 + 0.7 or r * 0.4 + 0.1
DemoConfidence(r1, r2) ==
    IF isLikelyDeepfake(r1) THEN r2 * 30 + 70000 ELSE r2 * 40 + 10000

\* the demo confidence of analyzeVideo after a vendor failure:
\* r * 0.25 + 0.05 or r * 0.35 + 0.65
VideoFallbackConfidence(r1, r2) ==
    IF isLikelyDeepfake(r1) THEN r2 * 25 + 5000 ELSE r2 * 35 + 65000

\* Math.random() > 0.5 in analyzeAudio
isSynthetic(r1) == r1 * 2 > RAND_SCALE

\* r * 0.25 + 0.7 or r * 0.2 + 0.75
AudioConfidence(r1, r2) ==
    IF isSynthetic(r1) THEN r2 * 25 + 70000 ELSE r2 * 20 + 75000

---------------------------------------------------------------------------
(* Environment *)

\* env is the set of environment variables that are set to a non-empty
\* value; "VERCEL" stands for VERCEL = '1'.
EnvConfigs ==
    { {},
      {"SIGHTENGINE_USER"},
      {"SIGHTENGINE_USER", "SIGHTENGINE_SECRET"},
      {"SIGHTENGINE_USER", "SIGHTENGINE_SECRET", "RESEMBLE_API_KEY"},
      {"SIGHTENGINE_USER", "SIGHTENGINE_SECRET", "VERCEL"},
      {"NOW_REGION"},
      {"RESEMBLE_API_KEY", "SERVERLESS"} }

sightengineConfigured(e) == "SIGHTENGINE_USER" \in e /\ "SIGHTENGINE_SECRET" \in e
resembleConfigured(e) == "RESEMBLE_API_KEY" \in e

isServerless(e) == "VERCEL" \in e \/ "NOW_REGION" \in e \/ "SERVERLESS" \in e

\* the directory multer stores uploads in: <baseDir>/uploads
storageDir(e) == IF isServerless(e) THEN "/tmp/uploads" ELSE "cwd/uploads"

\* the directory GET /api/files, GET /api/files/:filename and
\* POST /api/cleanup-files look in
servedDir == "cwd/uploads"

\* path.join(process.cwd(), 'uploads') as a string, with process.cwd() = /app
uploadsPath == << "/", "a", "p", "p", "/", "u", "p", "l", "o", "a", "d", "s" >>

---------------------------------------------------------------------------
(* Requests *)

\* 10 * 1024 * 1024
FILE_SIZE_LIMIT == 10485760
MAX_FILENAME_LENGTH == 255

Name_png == << "a", ".", "p", "n", "g" >>

\* An upload request: the file part (hasFile, mimetype, size, originalname),
\* whether the request carries a Content-Length header (a chunked request
\* carries none), its User-Agent and its Origin ("" when absent).
Upload(hasFile, mimetype, size, originalname, hasContentLength, userAgent, origin) ==
    [hasFile |-> hasFile, mimetype |-> mimetype, size |-> size,
     originalname |-> originalname, hasContentLength |-> hasContentLength,
     userAgent |-> userAgent, origin |-> origin]

UpImage == Upload(TRUE, "image/png", 1, Name_png, TRUE, "Mozilla/5.0", "http://localhost:8080")
UpVideo == Upload(TRUE, "video/mp4", 1, << "v", ".", "m", "p", "4" >>, TRUE, "Mozilla/5.0", "")
UpAudio == Upload(TRUE, "audio/wav", 1, << "s", ".", "w", "a", "v" >>, TRUE,
                  "Mozilla/5.0", "http://localhost:8080")

Uploads ==
    LET Browser == "Mozilla/5.0"
        Local == "http://localhost:8080"
        Name_mp4 == << "v", ".", "m", "p", "4" >>
        Name_dots == << ".", ".", "a", ".", "p", "n", "g" >>
        Name_slash == << "d", "/", "a", ".", "p", "n", "g" >>
        Name_exe == << "a", ".", "E", "X", "E" >>
        Name_long == [i \in 1..(MAX_FILENAME_LENGTH + 1) |-> "a"]
    IN
    { UpImage, UpVideo, UpAudio,
      \* an empty file
      Upload(TRUE, "image/png", 0, Name_png, TRUE, Browser, Local),
      \* a file of exactly the limit, chunked and with a Content-Length
      Upload(TRUE, "image/png", FILE_SIZE_LIMIT, Name_png, FALSE, Browser, Local),
      Upload(TRUE, "image/png", FILE_SIZE_LIMIT, Name_png, TRUE, Browser, Local),
      \* a file one byte over the limit, chunked and with a Content-Length
      Upload(TRUE, "image/png", FILE_SIZE_LIMIT + 1, Name_png, FALSE, Browser, Local),
      Upload(TRUE, "video/mp4", FILE_SIZE_LIMIT + 1, Name_mp4, TRUE, Browser, Local),
      \* mime types outside the whitelist
      Upload(TRUE, "text/plain", 1, Name_png, TRUE, Browser, Local),
      Upload(TRUE, "image/gif", FILE_SIZE_LIMIT + 1, Name_png, FALSE, Browser, Local),
      \* file names the filter refuses
      Upload(TRUE, "image/png", 1, << >>, TRUE, Browser, Local),
      Upload(TRUE, "image/png", 1, Name_long, TRUE, Browser, Local),
      Upload(TRUE, "image/png", 1, Name_dots, TRUE, Browser, Local),
      Upload(TRUE, "image/png", 1, Name_slash, TRUE, Browser, Local),
      Upload(TRUE, "image/png", 1, Name_exe, TRUE, Browser, Local),
      \* no file part
      Upload(FALSE, "", 0, << >>, TRUE, Browser, Local),
      \* refused before multer runs
      Upload(TRUE, "image/png", 1, Name_png, TRUE, "curl/8.0", ""),
      Upload(TRUE, "image/png", 1, Name_png, TRUE, Browser, "http://evil.example") }

\* req.file as multer's disk storage fills it in
NoFile == [originalname |-> << >>, mimetype |-> "", size |-> 0,
           filename |-> << >>, destination |-> ""]

NoResult == [type |-> "none"]

\* res.status(status).json(body): the status, the values of the body's
\* success, error and result ("" and NoResult when the body has none) and
\* the property names of the body
Body(status, success, error, result, keys) ==
    [status |-> status, success |-> success, error |-> error, result |-> result,
     keys |-> keys]

\* res.status(status).json({success, error}) or res.json({success, result})
Json(status, success, error, result) ==
    Body(status, success, error, result,
         {"success"} \cup (IF error # "" THEN {"error"} ELSE {})
                     \cup (IF result # NoResult THEN {"result"} ELSE {}))

\* res.status(status).json({success: false, error, message})
JsonMessage(status, error) ==
    Body(status, FALSE, error, NoResult, {"success", "error", "message"})

---------------------------------------------------------------------------
(* State *)

VARIABLES
    env,     \* the environment variables that are set
    now,     \* Date.now()
    dirs,    \* the upload directories that exist
    fs,      \* the files of the upload directories
    rq,      \* per request: its position, its upload, req.file, the analyzer called
    resp,    \* per request: the responses sent, in order
    fileOp,  \* the latest response of GET /api/files/:filename or POST /api/cleanup-files
    fileOps, \* the number of file requests sent
    arg,     \* the argument of a helper function applied on its own
    ret,     \* the value the helper returned, "none" before the call
    statusResp, \* the latest response of GET /api/status
    client,  \* the browser: the state of AuthContext and the analyses it got
    db,      \* the backend-as-a-service: session user, tables, latest reply
    ui       \* the browser: the state of FileUpload and of the page around it

vars == << env, now, dirs, fs, rq, resp, fileOp, fileOps, arg, ret, statusResp, client, db, ui >>

\* the variables the handlers of the upload and file routes leave alone
helper == << arg, ret, statusResp, client, db, ui >>

\* the variables of the server
server == << env, now, dirs, fs, rq, resp, fileOp, fileOps >>

Requests == 1..NumReq

\* the responses of request r
Responses(r) == {resp[r][i] : i \in 1..Len(resp[r])}

\* The response of a file request: the decoded file name, the status, the
\* success flag of a JSON body, the request whose bytes are streamed (0 for
\* none) and cleanedCount (NoNum when the body has none). Recorded with it:
\* the request whose bytes the storage directory held under that name (0
\* for none), the files the request deleted, and the files of the storage
\* directory that were more than 24 hours old when it arrived.
FileResponse(op, filename, status, success, body, cleanedCount, stored, deleted, old) ==
    [op |-> op, filename |-> filename, status |-> status, success |-> success,
     body |-> body, cleanedCount |-> cleanedCount, stored |-> stored,
     deleted |-> deleted, old |-> old]

NoOp == FileResponse("none", << >>, 0, FALSE, 0, NoNum, 0, {}, {})

\* a file: the directory it is in, its name, its mtime, its size and the
\* request whose bytes it holds
File(dir, name, mtime, size, owner) ==
    [dir |-> dir, name |-> name, mtime |-> mtime, size |-> size, owner |-> owner]

existsSync(files, dir, name) == \E f \in files : f.dir = dir /\ f.name = name

FileAt(files, dir, name) == CHOOSE f \in files : f.dir = dir /\ f.name = name

\* writing a file replaces the file of the same path
WriteFile(files, f) == {g \in files : ~(g.dir = f.dir /\ g.name = f.name)} \cup {f}

---------------------------------------------------------------------------
(* createServer: the middleware in front of the routes *)

allowedOrigins ==
    {"http://localhost:3000", "http://localhost:5173", "http://localhost:8080",
     "http://localhost:8081", "http://127.0.0.1:3000", "http://127.0.0.1:5173",
     "http://127.0.0.1:8080", "http://127.0.0.1:8081"}

\* corsOptions.origin: TRUE when the request goes on
corsAllows(origin) == origin = "" \/ origin \in allowedOrigins

\* the User-Agent strings the validation middleware blocks
suspiciousUserAgent(ua) == ua \in {"curl/8.0", "python-requests/2.31", "Googlebot/2.1"}

\* the Content-Length header of an upload, NoNum for a chunked request
contentLength(u) ==
    IF ~u.hasContentLength THEN NoNum
    ELSE (IF u.hasFile THEN u.size ELSE 0) + MultipartOverhead

\* req.headers['content-length'] present and above 10 MB
payloadTooLarge(u) == contentLength(u) # NoNum /\ contentLength(u) > FILE_SIZE_LIMIT

\* The response the middleware chain sends instead of calling the route;
\* status 0 means the request goes on to the route.
Passed == Json(0, TRUE, "", NoResult)

middleware(u) ==
    IF ~corsAllows(u.origin) THEN JsonMessage(403, "CORS policy violation")
    ELSE IF payloadTooLarge(u) THEN JsonMessage(413, "Payload too large")
    ELSE IF suspiciousUserAgent(u.userAgent) THEN JsonMessage(403, "Access denied")
    ELSE Passed

---------------------------------------------------------------------------
(* multer: fileFilter, limits, disk storage *)

suspiciousExtensions ==
    { << ".", "e", "x", "e" >>, << ".", "b", "a", "t" >>, << ".", "c", "m", "d" >>,
      << ".", "c", "o", "m" >>, << ".", "p", "i", "f" >>, << ".", "s", "c", "r" >>,
      << ".", "v", "b", "s" >>, << ".", "j", "s" >>, << ".", "j", "a", "r" >> }

\* The error fileFilter passes to its callback, "" when it accepts the file.
\* file.size is NoNum when the property is undefined: a comparison with
\* undefined is false.
fileFilter(file) ==
    IF file.size # NoNum /\ file.size > FILE_SIZE_LIMIT THEN "File size exceeds 10MB limit"
    ELSE IF file.size # NoNum /\ file.size = 0 THEN "File is empty"
    ELSE IF getFileCategory(file.mimetype) = "unsupported" THEN "Unsupported file type"
    ELSE IF Len(file.originalname) = 0 \/ Len(file.originalname) > MAX_FILENAME_LENGTH
         THEN "Invalid filename"
    ELSE IF \/ includes(toLowerCase(file.originalname), << ".", "." >>)
            \/ includes(toLowerCase(file.originalname), << "/" >>)
            \/ includes(toLowerCase(file.originalname), << "\\" >>)
         THEN "Invalid filename - path traversal not allowed"
    ELSE IF extname(toLowerCase(file.originalname)) \in suspiciousExtensions
         THEN "File type not allowed"
    ELSE ""

\* what multer hands to fileFilter: the headers of the file part, no size
filterArgument(u) ==
    [originalname |-> u.originalname, mimetype |-> u.mimetype, size |-> NoNum]

\* limits.fileSize set to 100 MB instead of 10 MB
fileTooLarge_100MB(size) == size > 10 * FILE_SIZE_LIMIT

\* limits.fileSize: the upload is aborted when the file has more bytes
fileTooLarge(size) == size > FILE_SIZE_LIMIT

\* storage.filename: `${timestamp}-${nameWithoutExt}${ext}`
safeName(timestamp, originalName) ==
    LET ext == extname(originalName)
        nameWithoutExt == basename(originalName, ext)
    IN  ToDigits(timestamp) \o << "-" >> \o nameWithoutExt \o ext

\* req.file after a completed upload
storedFile(e, t, u) ==
    [originalname |-> u.originalname, mimetype |-> u.mimetype, size |-> u.size,
     filename |-> safeName(t, u.originalname), destination |-> storageDir(e)]

---------------------------------------------------------------------------
(* handleAnalyze and the analyzers *)

\* the analysisResult handleAnalyze builds from an analyzer's response
analysisResult(category, api, file) ==
    [type |-> category,
     isDeepfake |-> IF category = "audio" THEN api.is_synthetic ELSE api.prob * 10 > 7 * SCALE,
     confidence |-> api.prob,
     riskLevel |-> api.riskLevel,
     confidenceCategory |-> api.confidenceCategory,
     analysisQuality |-> api.analysisQuality,
     key |-> api.key,
     fields |-> api.fields,
     frameFields |-> api.frameFields,
     metadata |-> [file_name |-> file.originalname,
                   saved_filename |-> file.filename,
                   file_size |-> file.size,
                   file_type |-> file.mimetype]]

\* res.json({success: true, result})
sendResult(category, api, file) == << Json(200, TRUE, "", analysisResult(category, api, file)) >>

\* an outer catch that logs the error and sends nothing
sendError_logOnly(message) == << >>

\* the outer catch of handleAnalyze
sendError(message) == << Json(500, FALSE, message, NoResult) >>

\* the route's callback when multer reports an error
routeOnError(message) == << Json(400, FALSE, message, NoResult) >>

\* handleAnalyze without req.file
sendNoFile == << Json(400, FALSE, "No file uploaded", NoResult) >>

\* One step of a request: its new position, req.file, the analyzer that was
\* called, the responses sent, and the file system after the step.
Step(st, file, called, out, files, ds) ==
    [st |-> st, file |-> file, called |-> called, out |-> out, fs |-> files, dirs |-> ds]

\* a credentials test that looks at SIGHTENGINE_USER only
credentialsMissing_userOnly(e) == "SIGHTENGINE_USER" \notin e

\* !SIGHTENGINE_USER || !SIGHTENGINE_SECRET in analyzeImage and analyzeVideo
credentialsMissing(e) == "SIGHTENGINE_USER" \notin e \/ "SIGHTENGINE_SECRET" \notin e

\* analyzeImage up to the vendor call
analyzeImageStart(e, file, files, ds, r1, r2) ==
    IF credentialsMissing(e)
    THEN Step("done", file, "image",
              sendResult("image", generateEnhancedImageResponse(DemoConfidence(r1, r2), TRUE), file),
              files, ds)
    ELSE IF ~existsSync(files, file.destination, file.filename)
    THEN Step("done", file, "image", sendError("ENOENT"), files, ds)
    ELSE IF FileAt(files, file.destination, file.filename).size = 0
    THEN Step("done", file, "image", sendError("Uploaded file is empty"), files, ds)
    ELSE IF FileAt(files, file.destination, file.filename).size > FILE_SIZE_LIMIT
    THEN Step("done", file, "image", sendError("File size exceeds 10MB limit"), files, ds)
    ELSE Step("image", file, "image", << >>, files, ds)

\* analyzeVideo up to the vendor call
analyzeVideoStart(e, file, files, ds, r1, r2) ==
    IF credentialsMissing(e)
    THEN Step("done", file, "video",
              sendResult("video", generateEnhancedVideoResponse(DemoConfidence(r1, r2), TRUE), file),
              files, ds)
    ELSE Step("video", file, "video", << >>, files, ds)

\* analyzeAudio up to its timer
analyzeAudioStart(file, files, ds) == Step("audio", file, "audio", << >>, files, ds)

\* handleAnalyze with req.file, up to the first wait
handleAnalyzeStart(e, file, files, ds, r1, r2) ==
    CASE getFileCategory(file.mimetype) = "image" -> analyzeImageStart(e, file, files, ds, r1, r2)
      [] getFileCategory(file.mimetype) = "video" -> analyzeVideoStart(e, file, files, ds, r1, r2)
      [] getFileCategory(file.mimetype) = "audio" -> analyzeAudioStart(file, files, ds)
      [] OTHER -> Step("done", file, "none", sendError("Unsupported file type"), files, ds)

\* upload.single('file') and the route's callback
multerUpload(e, t, r, u, files, ds, r1, r2) ==
    IF ~u.hasFile
    THEN Step("done", NoFile, "none", sendNoFile, files, ds)
    ELSE IF fileFilter(filterArgument(u)) # ""
    THEN Step("done", NoFile, "none", routeOnError(fileFilter(filterArgument(u))), files, ds)
    ELSE IF fileTooLarge(u.size)
    THEN \* the partly written file is removed again
         Step("done", NoFile, "none", routeOnError("File too large"),
              files, ds \cup {storageDir(e)})
    ELSE handleAnalyzeStart(e, storedFile(e, t, u),
                            WriteFile(files, File(storageDir(e), safeName(t, u.originalname),
                                                  t, u.size, r)),
                            ds \cup {storageDir(e)}, r1, r2)

\* POST /api/analyze from the first middleware to the first wait
postAnalyze(e, t, r, u, files, ds, r1, r2) ==
    IF middleware(u).status # 0
    THEN Step("done", NoFile, "none", << middleware(u) >>, files, ds)
    ELSE multerUpload(e, t, r, u, files, ds, r1, r2)

---------------------------------------------------------------------------
(* Vendor responses *)

\* deepfake scores a vendor response carries
VendorScores == {0, 70000, 70001, 100000}

\* HTTP statuses axios rejects with; NoNum is an error without a response
\* (network error, timeout)
HTTP_ERRORS == {400, 401, 413, 429, 500, NoNum}

\* What axios.post ends with: a 2xx response whose body has a status, a
\* deepfake.prob, a type.deepfake and frames (NoNum, << >> when absent), or
\* an AxiosError with the status of its response.
Outcome(kind, dataStatus, prob, typeDeepfake, frames, http) ==
    [kind |-> kind, dataStatus |-> dataStatus, prob |-> prob,
     typeDeepfake |-> typeDeepfake, frames |-> frames, http |-> http]

ImageOutcomes ==
    {Outcome("response", "success", p, NoNum, << >>, 200) : p \in VendorScores \cup {NoNum}}
    \cup {Outcome("response", "success", p, 70001, << >>, 200) : p \in {0, NoNum}}
    \cup {Outcome("response", "failure", NoNum, NoNum, << >>, 200)}
    \cup {Outcome("error", "", NoNum, NoNum, << >>, h) : h \in HTTP_ERRORS}

FrameSeqs == UNION {[1..n -> VendorScores \cup {NoNum}] : n \in 0..MaxFrames}

VideoOutcomes ==
    {Outcome("response", "success", p, NoNum, f, 200) : p \in {NoNum, 70000}, f \in FrameSeqs}
    \cup {Outcome("response", "success", NoNum, 100000, << >>, 200)}
    \cup {Outcome("response", "failure", NoNum, NoNum, << >>, 200)}
    \cup {Outcome("error", "", NoNum, NoNum, << >>, h) : h \in HTTP_ERRORS}

\* data.deepfake?.prob || data.type?.deepfake || 0
imageScore(o) ==
    IF o.prob # NoNum /\ o.prob # 0 THEN o.prob
    ELSE IF o.typeDeepfake # NoNum /\ o.typeDeepfake # 0 THEN o.typeDeepfake
    ELSE 0

RECURSIVE SeqMax(_)
\* Math.max(...scores) of a non-empty list
SeqMax(q) == IF Len(q) = 1 THEN q[1] ELSE Max2(q[1], SeqMax(Tail(q)))

\* frames.map(frame => frame?.type?.deepfake ?? 0).filter(score >= 0)
frameDeepfakeScores(o) ==
    SelectSeq([i \in 1..Len(o.frames) |-> IF o.frames[i] = NoNum THEN 0 ELSE o.frames[i]],
              LAMBDA x : x >= 0)

maxFrameDeepfake(o) ==
    IF Len(frameDeepfakeScores(o)) > 0 THEN SeqMax(frameDeepfakeScores(o)) ELSE 0

\* data.deepfake?.prob ?? data.type?.deepfake ?? 0
summaryDeepfake(o) ==
    IF o.prob # NoNum THEN o.prob ELSE IF o.typeDeepfake # NoNum THEN o.typeDeepfake ELSE 0

\* the summary score left out
finalDeepfakeScore_framesOnly(o) == maxFrameDeepfake(o)

finalDeepfakeScore(o) == Max2(maxFrameDeepfake(o), summaryDeepfake(o))

\* analyzeImage from the end of axios.post: the responses handleAnalyze sends
analyzeImageEnd(file, o, r1, r2) ==
    IF o.kind = "response" /\ o.dataStatus = "success"
    THEN sendResult("image", generateEnhancedImageResponse(imageScore(o), FALSE), file)
    ELSE IF o.kind = "error" /\ o.http = 429
    THEN sendError("API rate limit exceeded")
    ELSE sendResult("image", generateEnhancedImageResponse(DemoConfidence(r1, r2), TRUE), file)

\* analyzeVideo from the end of axios.post
analyzeVideoEnd(file, o, r1, r2) ==
    IF o.kind = "response" /\ o.dataStatus = "success"
    THEN sendResult("video", generateEnhancedVideoResponse(finalDeepfakeScore(o), FALSE), file)
    ELSE sendResult("video",
                    generateEnhancedVideoResponse(VideoFallbackConfidence(r1, r2), TRUE), file)

\* analyzeAudio when its timer fires
analyzeAudioEnd(file, r1, r2) ==
    sendResult("audio",
               generateEnhancedAudioResponse(AudioConfidence(r1, r2), isSynthetic(r1), TRUE), file)

---------------------------------------------------------------------------
(* GET /api/status *)

\* res.json({sightengineConfigured, resembleConfigured, message})
StatusBody(sightengine, resemble) ==
    [sent |-> TRUE, sightengineConfigured |-> sightengine, resembleConfigured |-> resemble]

NoStatus == [sent |-> FALSE, sightengineConfigured |-> FALSE, resembleConfigured |-> FALSE]

getStatus(e) == StatusBody(sightengineConfigured(e), resembleConfigured(e))

---------------------------------------------------------------------------
(* The browser and the backend-as-a-service *)

\* monthly_analyses of the 'free' row of subscription_limits
FREE_MONTHLY_ANALYSES == 10

\* AuthContext before a user has signed in: useState(0), useState(10);
\* performed counts the analyses the server ran for the browser's user
NoClient == [monthlyUsage |-> 0, usageLimit |-> 10, performed |-> 0]

\* the backend before anyone has signed in: no session user (0), no
\* user_usage row of this month, no analysis_history row (none inserted),
\* no reply
NoDb == [user |-> 0, usage |-> 0, history |-> {}, inserted |-> 0,
         last |-> [fn |-> "none", data |-> {}, null |-> TRUE, error |-> FALSE,
                   queried |-> FALSE]]

\* canAnalyze = usageLimit === -1 || monthlyUsage < usageLimit
canAnalyze(c) == c.usageLimit = NoNum \/ c.monthlyUsage < c.usageLimit

\* refreshUsage: setMonthlyUsage(data.length), nothing when the query fails
refreshUsage(c, d, ok) == IF ok THEN [c EXCEPT !.monthlyUsage = d.usage] ELSE c

\* trackAnalysis: one more user_usage row, none when the insert fails
trackAnalysis(d, ok) == IF ok THEN [d EXCEPT !.usage = d.usage + 1] ELSE d

\* What a data-layer function of lib/supabase.ts leaves behind: the
\* {data, error} it returns (data a set of rows, null when it is null),
\* whether it issued a query on the table, and the analysis_history table.
Reply(d, fn, data, null, error, history, queried) ==
    [d EXCEPT !.last = [fn |-> fn, data |-> data, null |-> null, error |-> error,
                        queried |-> queried],
              !.history = history]

\* if (authError || !user) return { data: null, error }
notAuthenticated(d, authError) == authError \/ d.user = 0

getUserAnalysisHistory(d, authError) ==
    IF notAuthenticated(d, authError)
    THEN Reply(d, "getUserAnalysisHistory", {}, TRUE, TRUE, d.history, FALSE)
    ELSE Reply(d, "getUserAnalysisHistory", {r \in d.history : r.user_id = d.user},
               FALSE, FALSE, d.history, TRUE)

\* .single(): an error and no data unless exactly one row matches
getAnalysisById(d, analysisId, authError) ==
    IF notAuthenticated(d, authError)
    THEN Reply(d, "getAnalysisById", {}, TRUE, TRUE, d.history, FALSE)
    ELSE LET rows == {r \in d.history : r.id = analysisId /\ r.user_id = d.user}
         IN  Reply(d, "getAnalysisById", rows, rows = {}, rows = {}, d.history, TRUE)

\* a delete restricted to the id only
deleteAnalysis_anyUser(d, analysisId, authError) ==
    IF notAuthenticated(d, authError)
    THEN Reply(d, "deleteAnalysis", {}, TRUE, TRUE, d.history, FALSE)
    ELSE Reply(d, "deleteAnalysis", {}, TRUE, FALSE,
               {r \in d.history : ~(r.id = analysisId)}, TRUE)

\* .delete() without .select() returns data null
deleteAnalysis(d, analysisId, authError) ==
    IF notAuthenticated(d, authError)
    THEN Reply(d, "deleteAnalysis", {}, TRUE, TRUE, d.history, FALSE)
    ELSE Reply(d, "deleteAnalysis", {}, TRUE, FALSE,
               {r \in d.history : ~(r.id = analysisId /\ r.user_id = d.user)}, TRUE)

\* .or(`file_name.ilike.%${query}%,analysis_type.ilike.%${query}%`): the
\* query text is pasted into the filter, so a query with a comma can add a
\* condition of its own to the or-group (query.always: one every row meets)
orFilter(r, query) ==
    query.always \/ includes(r.file_name, query.text) \/ includes(r.analysis_type, query.text)

searchAnalyses(d, query, authError) ==
    IF notAuthenticated(d, authError)
    THEN Reply(d, "searchAnalyses", {}, TRUE, TRUE, d.history, FALSE)
    ELSE Reply(d, "searchAnalyses",
               {r \in d.history : r.user_id = d.user /\ orFilter(r, query)},
               FALSE, FALSE, d.history, TRUE)

\* a call of one of the four functions
dataLayer(fn, d, analysisId, query, authError) ==
    CASE fn = "getUserAnalysisHistory" -> getUserAnalysisHistory(d, authError)
      [] fn = "getAnalysisById" -> getAnalysisById(d, analysisId, authError)
      [] fn = "deleteAnalysis" -> deleteAnalysis(d, analysisId, authError)
      [] fn = "searchAnalyses" -> searchAnalyses(d, query, authError)

---------------------------------------------------------------------------
(* FileUpload (client/components/FileUpload.tsx) *)

maxRetries == 3

\* an attempt that has not begun, and one that is over
NoAttempt == [stage |-> "none", retryCount |-> 0]

\* The component after mount on a page that is not analysing. att is the
\* position of each call of performAnalysis, with the retryCount its closure
\* holds; intervals are the calls whose setInterval timer is live; resetBy
\* is the call whose 300 ms timer wrote analysisStage last, 0 when another
\* handler did; page is isAnalyzing of the page (Index, Dashboard).
NoUi == [file |-> FALSE, isAnalyzing |-> FALSE, progress |-> 0, analysisStage |-> "idle",
         error |-> "null", retryCount |-> 0, page |-> FALSE, started |-> 0,
         att |-> [a \in 1..MaxAttempts |-> NoAttempt], intervals |-> {}, resetBy |-> 0]

\* performAnalysis up to the await of fetch, called where retryCount is rc
performAnalysis(u, rc) ==
    [u EXCEPT !.isAnalyzing = TRUE, !.error = "null", !.progress = 0,
              !.analysisStage = "uploading", !.resetBy = 0, !.page = TRUE,
              !.started = u.started + 1,
              !.att[u.started + 1] = [stage |-> "fetch", retryCount |-> rc],
              !.intervals = u.intervals \cup {u.started + 1}]

\* the catch block of performAnalysis for call a
performAnalysis_catch(u, a) ==
    [u EXCEPT !.isAnalyzing = FALSE, !.progress = 0, !.analysisStage = "idle",
              !.resetBy = 0,
              !.error = IF u.att[a].retryCount < maxRetries THEN "retry" ELSE "final",
              !.att[a] = [stage |-> "over", retryCount |-> 0]]

---------------------------------------------------------------------------
(* Actions *)

\* vendor records how the request's vendor call ended: "none" (no call
\* ended), "success" or "failure"
NewRequest == [st |-> "new", up |-> Upload(FALSE, "", 0, << >>, FALSE, "", ""),
               file |-> NoFile, called |-> "none", vendor |-> "none"]

\* anything but a 2xx response whose body has status 'success'
vendorFailed(o) == ~(o.kind = "response" /\ o.dataStatus = "success")

\* the server after createServer(), in environment configurations es
ServerInit(es) ==
    /\ env \in es
    /\ now = BaseNow
    /\ dirs = {}
    /\ fs = {}
    /\ rq = [r \in Requests |-> NewRequest]
    /\ resp = [r \in Requests |-> << >>]
    /\ fileOp = NoOp
    /\ fileOps = 0
    /\ statusResp = NoStatus
    /\ client = NoClient
    /\ ui = NoUi
    /\ db = NoDb

Init ==
    /\ ServerInit(EnvConfigs)
    /\ arg = 0
    /\ ret = "none"

\* a client sends upload u as request r
PostAnalyze(r, u, r1, r2) ==
    /\ rq[r].st = "new"
    /\ LET s == postAnalyze(env, now, r, u, fs, dirs, r1, r2)
       IN  /\ rq' = [rq EXCEPT ![r] = [st |-> s.st, up |-> u, file |-> s.file,
                                       called |-> s.called, vendor |-> "none"]]
           /\ resp' = [resp EXCEPT ![r] = resp[r] \o s.out]
           /\ fs' = s.fs
           /\ dirs' = s.dirs
    /\ UNCHANGED << env, now, fileOp, fileOps, helper >>

\* the vendor call of analyzeImage ends with outcome o
ImageVendorReply(r, o, r1, r2) ==
    /\ rq[r].st = "image"
    /\ rq' = [rq EXCEPT ![r].st = "done",
                         ![r].vendor = IF vendorFailed(o) THEN "failure" ELSE "success"]
    /\ resp' = [resp EXCEPT ![r] = resp[r] \o analyzeImageEnd(rq[r].file, o, r1, r2)]
    /\ UNCHANGED << env, now, dirs, fs, fileOp, fileOps, helper >>

\* the vendor call of analyzeVideo ends with outcome o
VideoVendorReply(r, o, r1, r2) ==
    /\ rq[r].st = "video"
    /\ rq' = [rq EXCEPT ![r].st = "done",
                         ![r].vendor = IF vendorFailed(o) THEN "failure" ELSE "success"]
    /\ resp' = [resp EXCEPT ![r] = resp[r] \o analyzeVideoEnd(rq[r].file, o, r1, r2)]
    /\ UNCHANGED << env, now, dirs, fs, fileOp, fileOps, helper >>

\* the 2 s timer of analyzeAudio fires
AudioTimer(r, r1, r2) ==
    /\ rq[r].st = "audio"
    /\ rq' = [rq EXCEPT ![r].st = "done"]
    /\ resp' = [resp EXCEPT ![r] = resp[r] \o analyzeAudioEnd(rq[r].file, r1, r2)]
    /\ UNCHANGED << env, now, dirs, fs, fileOp, fileOps, helper >>

\* 24 hours in milliseconds: ageInHours > 24 with
\* ageInHours = (Date.now() - mtime) / (1000 * 60 * 60)
DAY_MS == 24 * 1000 * 60 * 60

\* d milliseconds pass
Tick(d) ==
    /\ (now + d - BaseNow) \div DAY_MS <= MaxDays
    /\ (now + d - BaseNow) % DAY_MS <= MaxSkew
    /\ now' = now + d
    /\ UNCHANGED << env, dirs, fs, rq, resp, fileOp, fileOps, helper >>

\* axios gives up at its timeout: an error without a response
TimeoutOutcome == Outcome("error", "", NoNum, NoNum, << >>, NoNum)

ImageTimeout(r) == \E r1, r2 \in RandSamples : ImageVendorReply(r, TimeoutOutcome, r1, r2)
VideoTimeout(r) == \E r1, r2 \in RandSamples : VideoVendorReply(r, TimeoutOutcome, r1, r2)
AudioTimeout(r) == \E r1, r2 \in RandSamples : AudioTimer(r, r1, r2)

\* The Math.random() draws a step consults: the demo confidence is drawn
\* only where the analyzer builds a demo response.
uploadDraws(e, u) ==
    IF credentialsMissing(e) /\ getFileCategory(u.mimetype) \in {"image", "video"}
    THEN RandSamples ELSE {0}

replyDraws(o) == IF vendorFailed(o) THEN RandSamples ELSE {0}

Next ==
    \/ \E r \in Requests, u \in Uploads :
          \E r1, r2 \in uploadDraws(env, u) : PostAnalyze(r, u, r1, r2)
    \/ \E r \in Requests, o \in ImageOutcomes :
          \E r1, r2 \in replyDraws(o) : ImageVendorReply(r, o, r1, r2)
    \/ \E r \in Requests, o \in VideoOutcomes :
          \E r1, r2 \in replyDraws(o) : VideoVendorReply(r, o, r1, r2)
    \/ \E r \in Requests, r1, r2 \in RandSamples : AudioTimer(r, r1, r2)
    \/ Tick(1)

Spec == Init /\ [][Next]_vars

---------------------------------------------------------------------------
(* GET /api/files/:filename and POST /api/cleanup-files *)

olderThan24h(t, f) == t - f.mtime > DAY_MS

\* Results.getMediaUrl without the '/api/files/' prefix
getMediaUrl(result) ==
    encodeURIComponent(IF Len(result.metadata.saved_filename) > 0
                       THEN result.metadata.saved_filename
                       ELSE result.metadata.file_name)

\* path.join(process.cwd(), 'uploads', filename)
servedPath(filename) == resolve(uploadsPath \o << "/" >> \o filename)

\* the name in the served directory a path denotes, << >> when the path is
\* not a direct child of it
childName(path) ==
    IF startsWith(path, uploadsPath \o << "/" >>)
       /\ ~includes(SubSeq(path, Len(uploadsPath) + 2, Len(path)), << "/" >>)
    THEN SubSeq(path, Len(uploadsPath) + 2, Len(path))
    ELSE << >>

\* the absolute path of a directory of the model, with process.cwd() = /app
dirPath(dir) ==
    CASE dir = "cwd/uploads" -> uploadsPath
      [] dir = "cwd/uploads-old" -> uploadsPath \o << "-", "o", "l", "d" >>
      [] dir = "cwd" -> SubSeq(uploadsPath, 1, 4)
      [] OTHER -> << "/", "t", "m", "p" >> \o SubSeq(uploadsPath, 5, Len(uploadsPath))

\* the request whose bytes directory dir holds under a name, 0 for none
heldIn(files, dir, name) ==
    IF existsSync(files, dir, name) THEN FileAt(files, dir, name).owner ELSE 0

\* the handler of GET /api/files/:filename for the decoded parameter
getFile(e, files, filename) ==
    IF ~startsWith(resolve(servedPath(filename)), resolve(uploadsPath))
    THEN FileResponse("get", filename, 403, FALSE, 0, NoNum,
                      heldIn(files, storageDir(e), filename), {}, {})
    ELSE IF ~\E f \in files : dirPath(f.dir) \o << "/" >> \o f.name = servedPath(filename)
    THEN FileResponse("get", filename, 404, FALSE, 0, NoNum,
                      heldIn(files, storageDir(e), filename), {}, {})
    ELSE FileResponse("get", filename, 200, TRUE,
                      (CHOOSE f \in files :
                          dirPath(f.dir) \o << "/" >> \o f.name = servedPath(filename)).owner,
                      NoNum, heldIn(files, storageDir(e), filename), {}, {})

\* a client requests /api/files/<param>
GetFile(param) ==
    /\ fileOps < MaxFileOps
    /\ fileOps' = fileOps + 1
    /\ fileOp' = getFile(env, fs, decodeURIComponent(param))
    /\ UNCHANGED << env, now, dirs, fs, rq, resp, helper >>

\* the files of a directory that are more than 24 hours old at time t
oldFiles(files, dir, t) == {f \in files : f.dir = dir /\ olderThan24h(t, f)}

\* The handler of POST /api/cleanup-files. It deletes the files of `gone`;
\* when a statSync or unlinkSync throws on the way (fails), these are the
\* files deleted before, and the catch answers 500.
cleanupFiles(e, t, files, ds, gone, fails) ==
    IF servedDir \notin ds
    THEN FileResponse("cleanup", << >>, 200, TRUE, 0, NoNum, 0, {},
                      oldFiles(files, storageDir(e), t))
    ELSE IF fails
    THEN FileResponse("cleanup", << >>, 500, FALSE, 0, NoNum, 0, gone,
                      oldFiles(files, storageDir(e), t))
    ELSE FileResponse("cleanup", << >>, 200, TRUE, 0, Cardinality(gone), 0, gone,
                      oldFiles(files, storageDir(e), t))

\* a client posts /api/cleanup-files
CleanupFiles(gone, fails) ==
    /\ fileOps < MaxFileOps
    /\ IF servedDir \in dirs
       THEN /\ gone \subseteq oldFiles(fs, servedDir, now)
            /\ ~fails => gone = oldFiles(fs, servedDir, now)
       ELSE gone = {} /\ ~fails
    /\ fileOps' = fileOps + 1
    /\ fileOp' = cleanupFiles(env, now, fs, dirs, gone, fails)
    /\ fs' = fs \ gone
    /\ UNCHANGED << env, now, dirs, rq, resp, helper >>

\* the uploads and environments of the file-serving specification
FileUploads ==
    {UpImage,
     Upload(TRUE, "image/png", 1, << "a", " ", "b", ".", "p", "n", "g" >>, TRUE,
            "Mozilla/5.0", "http://localhost:8080")}

\* the parameters clients request: the media URLs of the results they
\* received and a name that no upload was stored under
fileParams ==
    {getMediaUrl(a.result) : a \in {b \in UNION {{resp[r][i] : i \in 1..Len(resp[r])} : r \in Requests} : b.success}}
    \cup {encodeURIComponent(Name_png)}

FileInit ==
    /\ ServerInit({ {}, {"VERCEL"}, {"SERVERLESS"} })
    /\ arg = 0
    /\ ret = "none"

FileNext ==
    \/ \E r \in Requests, u \in FileUploads : PostAnalyze(r, u, 0, 0)
    \/ \E d \in {1, DAY_MS} : Tick(d)
    \/ \E p \in fileParams : GetFile(p)
    \/ \E gone \in SUBSET fs, fails \in BOOLEAN : CleanupFiles(gone, fails)

FileSpec == FileInit /\ [][FileNext]_vars

\* C6 (as claimed): in every deployment configuration, while a stored file
\* has not been removed, GET /api/files/<saved_filename> answers 200 with
\* that file; 404 is answered only for names that are not stored.
C6_StoredFileIsServed ==
    fileOp.op = "get" =>
        /\ fileOp.stored # 0 => (fileOp.status = 200 /\ fileOp.body = fileOp.stored)
        /\ fileOp.status = 404 => fileOp.stored = 0

\* C8 (as claimed): a cleanup that answers success=true has deleted every
\* file of the uploads directory that was more than 24 hours old, no other
\* file, and reports cleanedCount equal to the number of files it deleted.
C8_CleanupDeletesOldFiles ==
    (fileOp.op = "cleanup" /\ fileOp.success) =>
        /\ fileOp.deleted = fileOp.old
        /\ fileOp.cleanedCount = Cardinality(fileOp.deleted)

---------------------------------------------------------------------------
(* GET /api/status beside the analyzers *)

\* a client requests /api/status
GetStatus ==
    /\ statusResp' = getStatus(env)
    /\ UNCHANGED << server, arg, ret, client, db, ui >>

\* vendor outcomes of the status specification: a scored response, a body
\* without status 'success', an HTTP error and a timeout
StatusOutcomes ==
    { Outcome("response", "success", 70001, NoNum, << >>, 200),
      Outcome("response", "failure", NoNum, NoNum, << >>, 200),
      Outcome("error", "", NoNum, NoNum, << >>, 500),
      TimeoutOutcome }

StatusNext ==
    \/ \E r \in Requests, u \in {UpImage, UpVideo, UpAudio} :
          \E r1, r2 \in uploadDraws(env, u) : PostAnalyze(r, u, r1, r2)
    \/ \E r \in Requests, o \in StatusOutcomes : ImageVendorReply(r, o, 0, 0)
    \/ \E r \in Requests, o \in StatusOutcomes : VideoVendorReply(r, o, 0, 0)
    \/ \E r \in Requests : AudioTimer(r, 0, 0)
    \/ GetStatus

StatusSpec == Init /\ [][StatusNext]_vars

\* C12: the body of GET /api/status has sightengineConfigured true iff
\* SIGHTENGINE_USER and SIGHTENGINE_SECRET are both non-empty and
\* resembleConfigured true iff RESEMBLE_API_KEY is non-empty; and when it
\* reports sightengineConfigured false, every image or video analysis has
\* ended without a vendor call, with one success=true DEMO result.
C12_StatusAgreesWithAnalyzers ==
    statusResp.sent =>
        /\ statusResp.sightengineConfigured
              <=> {"SIGHTENGINE_USER", "SIGHTENGINE_SECRET"} \subseteq env
        /\ statusResp.resembleConfigured <=> "RESEMBLE_API_KEY" \in env
        /\ ~statusResp.sightengineConfigured =>
              \A r \in Requests :
                  rq[r].called \in {"image", "video"} =>
                      /\ rq[r].st = "done"
                      /\ rq[r].vendor = "none"
                      /\ Len(resp[r]) = 1
                      /\ resp[r][1].success
                      /\ resp[r][1].result.analysisQuality = "DEMO"

\* C12 witness: with only SIGHTENGINE_USER set the status reports
\* sightengineConfigured false, and an image and a video have been analysed.
C12_Witness ==
    /\ statusResp.sent /\ ~statusResp.sightengineConfigured
    /\ env = {"SIGHTENGINE_USER"}
    /\ \E r1, r2 \in Requests :
          /\ rq[r1].called = "image" /\ rq[r1].st = "done"
          /\ rq[r2].called = "video" /\ rq[r2].st = "done"

---------------------------------------------------------------------------
(* The score ranges of POST /api/analyze *)

\* The modelBreakdown of the image or video result request r received:
\* generateEnhancedImageResponse and generateEnhancedVideoResponse compute
\* it from the confidence of the result. Its Math.random() calls are
\* independent, so draw k is x and every other draw is x0.
ModelBreakdown(r, k, x, x0) ==
    /\ Len(resp[r]) > 0
    /\ resp[r][1].success
    /\ resp[r][1].result.type \in {"image", "video"}
    /\ arg' = resp[r][1].result.confidence
    /\ ret' = << generateModelBreakdown(resp[r][1].result.confidence,
                                        [j \in DrawKeys |-> IF j = k THEN x ELSE x0]) >>
    /\ UNCHANGED << server, statusResp, client, db, ui >>

RangeInit ==
    /\ ServerInit({ {}, {"SIGHTENGINE_USER", "SIGHTENGINE_SECRET"} })
    /\ arg = 0
    /\ ret = << >>

RangeNext ==
    \/ \E u \in {UpImage, UpVideo, UpAudio} :
          \E r1, r2 \in uploadDraws(env, u) : PostAnalyze(1, u, r1, r2)
    \/ \E o \in ImageOutcomes : \E r1, r2 \in replyDraws(o) : ImageVendorReply(1, o, r1, r2)
    \/ \E o \in VideoOutcomes : \E r1, r2 \in replyDraws(o) : VideoVendorReply(1, o, r1, r2)
    \/ \E r1, r2 \in RandSamples : AudioTimer(1, r1, r2)
    \/ \E k \in DrawKeys, x, x0 \in RandSamples : ModelBreakdown(1, k, x, x0)

RangeSpec == RangeInit /\ [][RangeNext]_vars

\* the probabilities of a model breakdown
Probabilities(b) ==
    {b.genAI, b.faceManipulation}
    \cup {b.diffusion[m] : m \in DOMAIN b.diffusion}
    \cup {b.gan[m] : m \in DOMAIN b.gan}
    \cup {b.other[m] : m \in DOMAIN b.other}

\* C13: every result returned by POST /api/analyze has a confidence in
\* [0, 1], and every probability of the modelBreakdown computed for it lies
\* in [0, 1], on the demo paths and on the vendor paths with scores in [0, 1].
C13_ScoresInUnitInterval ==
    /\ \A r \in Requests : \A a \in Responses(r) :
          a.success => (0 <= a.result.confidence /\ a.result.confidence <= SCALE)
    /\ \A i \in 1..Len(ret) : \A p \in Probabilities(ret[i]) : 0 <= p /\ p <= ONE

\* C13 witness: a vendor score of 1 with the largest draw: the face
\* manipulation score has been cut to 1.
C13_Witness ==
    /\ Len(ret) = 1
    /\ arg = SCALE
    /\ resp[1][1].result.analysisQuality = "API"
    /\ ret[1].faceManipulation = ONE

---------------------------------------------------------------------------
(* Subscription limits *)

\* POST /api/analyze runs an analyzer for the upload: the route looks at
\* the request only, never at a user or a usage count
analysisRuns(e, u) == postAnalyze(e, BaseNow, 1, u, {}, {}, 0, 0).called # "none"

\* The Dashboard: the upload tabs are rendered when canAnalyze; FileUpload
\* posts the file, and handleAnalysisComplete tracks the analysis and, when
\* tracking succeeded, refreshes the usage count.
DashboardAnalysis(trackOk, refreshOk) ==
    /\ client.performed < MaxRuns
    /\ canAnalyze(client)
    /\ analysisRuns(env, UpImage)
    /\ db' = trackAnalysis(db, trackOk)
    /\ client' = [refreshUsage(client, trackAnalysis(db, trackOk), trackOk /\ refreshOk)
                     EXCEPT !.performed = client.performed + 1]
    /\ UNCHANGED << server, arg, ret, statusResp, ui >>

\* The Index page: FileUpload is rendered without a gate, and its
\* handleAnalysisComplete tracks nothing.
IndexAnalysis ==
    /\ client.performed < MaxRuns
    /\ analysisRuns(env, UpImage)
    /\ client' = [client EXCEPT !.performed = client.performed + 1]
    /\ UNCHANGED << server, arg, ret, statusResp, db, ui >>

\* the effect that runs refreshUsage when the user changes or the page loads
RefreshUsage(ok) ==
    /\ client' = refreshUsage(client, db, ok)
    /\ UNCHANGED << server, arg, ret, statusResp, db, ui >>

\* a free-tier user has signed in and the profile has been loaded
UsageInit ==
    /\ Init
    /\ env = {}

UsageNext ==
    \/ \E trackOk, refreshOk \in BOOLEAN : DashboardAnalysis(trackOk, refreshOk)
    \/ IndexAnalysis
    \/ \E ok \in BOOLEAN : RefreshUsage(ok)

UsageSpec == UsageInit /\ [][UsageNext]_vars

\* C14 (as claimed): the analyses performed in a month for a user of the
\* free tier never exceed the monthly limit of 10.
C14_MonthlyLimitEnforced == client.performed <= FREE_MONTHLY_ANALYSES

---------------------------------------------------------------------------
(* The analysis history of the data layer *)

\* saveAnalysisToHistory: the row gets the next id and the session user
saveAnalysisToHistory(d, file_name, authError) ==
    IF notAuthenticated(d, authError)
    THEN Reply(d, "saveAnalysisToHistory", {}, TRUE, TRUE, d.history, FALSE)
    ELSE LET row == [id |-> d.inserted + 1, user_id |-> d.user, file_name |-> file_name,
                     analysis_type |-> << "i", "m", "a", "g", "e" >>]
         IN  [Reply(d, "saveAnalysisToHistory", {row}, FALSE, FALSE,
                    d.history \cup {row}, TRUE)
                EXCEPT !.inserted = d.inserted + 1]

\* handleAnalysisComplete saves the result of an analysis of a file
SaveAnalysis(file_name, authError) ==
    /\ db.inserted < NumRows
    /\ db' = saveAnalysisToHistory(db, file_name, authError)
    /\ UNCHANGED << server, arg, ret, statusResp, client, ui >>

\* the query of a call that has none
NoQuery == [text |-> << >>, always |-> FALSE]

\* the queries a user types: a text, and a text that adds a condition
SearchQueries ==
    {[text |-> << "a" >>, always |-> FALSE], [text |-> << "b" >>, always |-> FALSE],
     [text |-> << "z" >>, always |-> TRUE]}

\* The browser calls one of the four reading and deleting functions. arg
\* keeps the call (its arguments, the session user and the table before it).
DataLayerCall(fn, analysisId, query, authError) ==
    /\ db' = dataLayer(fn, db, analysisId, query, authError)
    /\ arg' = [id |-> analysisId, query |-> query, authError |-> authError,
               user |-> db.user, history |-> db.history]
    /\ UNCHANGED << server, ret, statusResp, client, ui >>

\* a user signs in (1, 2) or out (0)
SignIn(u) ==
    /\ db' = [db EXCEPT !.user = u]
    /\ UNCHANGED << server, arg, ret, statusResp, client, ui >>

HistoryInit ==
    /\ ServerInit({{}})
    /\ ret = "none"
    /\ arg = [id |-> 0, query |-> NoQuery, authError |-> FALSE,
              user |-> 0, history |-> {}]

HistoryNext ==
    \/ \E authError \in BOOLEAN : DataLayerCall("getUserAnalysisHistory", 0, NoQuery, authError)
    \/ \E fn \in {"getAnalysisById", "deleteAnalysis"}, id \in 1..NumRows,
          authError \in BOOLEAN : DataLayerCall(fn, id, NoQuery, authError)
    \/ \E q \in SearchQueries, authError \in BOOLEAN :
          DataLayerCall("searchAnalyses", 0, q, authError)
    \/ \E u \in 0..2 : SignIn(u)
    \/ \E name \in {<< "a" >>, << "b" >>}, authError \in BOOLEAN : SaveAnalysis(name, authError)

HistorySpec == HistoryInit /\ [][HistoryNext]_vars

\* the rows of table t that belong to user u
ownRows(t, u) == {r \in t : r.user_id = u}

\* C15: a call of getUserAnalysisHistory, getAnalysisById, deleteAnalysis
\* or searchAnalyses by an authenticated user returns only rows of that
\* user, returns and leaves what it would with the other users' rows absent,
\* and changes no row of another user; without an authenticated user it
\* returns {data: null, error} and issues no table query.
C15_UserIsolation ==
    db.last.fn \notin {"none", "saveAnalysisToHistory"} =>
        LET b == [db EXCEPT !.user = arg.user, !.history = arg.history]
            alone == dataLayer(db.last.fn, [b EXCEPT !.history = ownRows(b.history, b.user)],
                               arg.id, arg.query, arg.authError)
        IN  IF arg.authError \/ b.user = 0
            THEN /\ db.last.null /\ db.last.error
                 /\ ~db.last.queried
                 /\ db.history = b.history
            ELSE /\ db.last.data \subseteq ownRows(b.history, b.user)
                 /\ db.last.data = alone.last.data
                 /\ ownRows(db.history, b.user) = alone.history
                 /\ db.history \ ownRows(db.history, b.user)
                      = b.history \ ownRows(b.history, b.user)

\* C15 witness: with rows of both users in the table, user 1 has asked to
\* delete a row of user 2 and the row is still there.
C15_Witness ==
    /\ db.last.fn = "deleteAnalysis" /\ ~db.last.error
    /\ arg.user = 1
    /\ ownRows(db.history, 1) # {}
    /\ \E r \in db.history : r.id = arg.id /\ r.user_id = 2

---------------------------------------------------------------------------
(* getRiskLevel on its own *)

\* confidences 0, 0.01, ..., 1 and the neighbours of 0.2, 0.4, 0.6, 0.8
RiskGrid ==
    {k * 1000 : k \in 0..100}
    \cup {e + d : e \in {20000, 40000, 60000, 80000}, d \in {0 - 1, 1}}

RiskInit ==
    /\ ServerInit({{}})
    /\ arg \in RiskGrid
    /\ ret = "none"

ApplyRiskLevel ==
    /\ ret = "none"
    /\ ret' = getRiskLevel(arg)
    /\ UNCHANGED << server, arg, statusResp, client, db, ui >>

RiskSpec == RiskInit /\ [][ApplyRiskLevel]_vars

\* C4: getRiskLevel returns CRITICAL iff c >= 0.8, HIGH iff 0.6 <= c < 0.8,
\* MEDIUM iff 0.4 <= c < 0.6 and LOW iff c < 0.4, and nothing else.
C4_RiskLevelBuckets ==
    ret # "none" =>
        /\ ret \in {"LOW", "MEDIUM", "HIGH", "CRITICAL"}
        /\ ret = "CRITICAL" <=> arg >= 80000
        /\ ret = "HIGH" <=> (arg >= 60000 /\ arg < 80000)
        /\ ret = "MEDIUM" <=> (arg >= 40000 /\ arg < 60000)
        /\ ret = "LOW" <=> arg < 40000

\* C4 witness: the edge 0.4 has been put in the higher bucket
C4_Witness == arg = 40000 /\ ret = "MEDIUM"

---------------------------------------------------------------------------
(* Properties of POST /api/analyze *)

\* the vendor credentials of a media type are set
credentialsSet(e, type) ==
    IF type = "audio" THEN resembleConfigured(e) ELSE sightengineConfigured(e)

\* C1 (as claimed): every result returned by POST /api/analyze has
\* analysisQuality 'DEMO' if and only if the vendor credentials of its media
\* type are unset; with the credentials set a result is never demo data.
C1_DemoIffCredentialsUnset ==
    \A r \in Requests : \A a \in Responses(r) :
        a.success => (a.result.analysisQuality = "DEMO" <=> ~credentialsSet(env, a.result.type))

\* the upload of a request is outside the mime whitelist or above 10 MB
disallowed(u) == u.mimetype \notin ALL_SUPPORTED_TYPES \/ u.size > FILE_SIZE_LIMIT

\* C2: POST /api/analyze never calls an analyzer for an upload whose mime
\* type is outside ALL_SUPPORTED_TYPES or whose size is above 10 MB; such a
\* request ends with one success=false response, and every success=true
\* response belongs to a whitelisted upload of at most 10 MB.
C2_DisallowedUploadsRejected ==
    \A r \in Requests :
        /\ (rq[r].st # "new" /\ disallowed(rq[r].up)) =>
              /\ rq[r].called = "none"
              /\ rq[r].st = "done"
              /\ Len(resp[r]) = 1
              /\ ~resp[r][1].success
        /\ \A a \in Responses(r) : a.success => ~disallowed(rq[r].up)

\* C2 witness: a chunked upload one byte above the limit has been refused
\* and an upload of exactly the limit has been analysed.
C2_Witness ==
    \E r1, r2 \in Requests :
        /\ rq[r1].up.size = FILE_SIZE_LIMIT + 1 /\ ~rq[r1].up.hasContentLength
        /\ rq[r1].up.mimetype \in ALL_SUPPORTED_TYPES
        /\ Len(resp[r1]) = 1 /\ ~resp[r1][1].success
        /\ rq[r2].up.size = FILE_SIZE_LIMIT
        /\ Len(resp[r2]) = 1 /\ resp[r2][1].success

\* C3 (as claimed): every successful response carries a result whose type is
\* image, video or audio, equal to getFileCategory of the uploaded mime type,
\* and whose type-specific fields are those of the AnalysisResult union.
C3_ResultMatchesSharedUnion ==
    \A r \in Requests : \A a \in Responses(r) :
        a.success =>
            /\ a.result.type \in {"image", "video", "audio"}
            /\ a.result.type = getFileCategory(rq[r].up.mimetype)
            /\ a.result.key = AnalysisResultShape(a.result.type).key
            /\ a.result.fields = AnalysisResultShape(a.result.type).fields
            /\ a.result.frameFields = AnalysisResultShape(a.result.type).frameFields

\* C5 (as claimed): whenever the vendor call of an image or video analysis
\* fails, the request is answered with success=true and a DEMO result.
C5_VendorFailureGivesDemo ==
    \A r \in Requests :
        rq[r].vendor = "failure" =>
            /\ Len(resp[r]) = 1
            /\ resp[r][1].success
            /\ resp[r][1].result.analysisQuality = "DEMO"

\* C7 (as claimed): once POST /api/analyze has sent its response, the
\* uploaded file no longer exists in the uploads directory.
C7_FileGoneAfterResponse ==
    \A r \in Requests :
        (Len(resp[r]) > 0 /\ rq[r].file # NoFile) =>
            ~existsSync(fs, rq[r].file.destination, rq[r].file.filename)

\* C9 (as claimed): any two uploads are stored under distinct saved
\* filenames, and each response's metadata and result type describe the
\* file of its own request.
C9_RequestsIndependent ==
    /\ \A r1, r2 \in Requests :
          (r1 # r2 /\ rq[r1].file # NoFile /\ rq[r2].file # NoFile) =>
              rq[r1].file.filename # rq[r2].file.filename
    /\ \A r \in Requests : \A a \in Responses(r) :
          a.success =>
              /\ a.result.metadata.file_name = rq[r].up.originalname
              /\ a.result.metadata.saved_filename = rq[r].file.filename
              /\ a.result.metadata.file_size = rq[r].up.size
              /\ a.result.metadata.file_type = rq[r].up.mimetype
              /\ a.result.type = getFileCategory(rq[r].up.mimetype)

\* the properties AnalysisResponse declares without '?'
AnalysisResponseRequired == {"success", "analysisId", "timestamp", "version"}

\* C11 (as claimed): every response body of POST /api/analyze carries
\* success, analysisId, timestamp and version, has a result exactly when
\* success is true and an error exactly when success is false.
C11_BodyIsAnalysisResponse ==
    \A r \in Requests : \A a \in Responses(r) :
        /\ AnalysisResponseRequired \subseteq a.keys
        /\ "result" \in a.keys <=> a.success
        /\ "error" \in a.keys <=> ~a.success

\* A vendor call that has not ended is ended by the timeout of axios, and
\* the audio timer fires.
LiveSpec ==
    /\ Spec
    /\ \A r \in Requests :
          /\ WF_vars(ImageTimeout(r))
          /\ WF_vars(VideoTimeout(r))
          /\ WF_vars(AudioTimeout(r))

\* C10: every POST /api/analyze request that was received eventually has
\* exactly one response, and no request ever has a second one.
C10_ExactlyOneResponse ==
    \A r \in Requests :
        /\ [](Len(resp[r]) <= 1)
        /\ (rq[r].st # "new") ~> (rq[r].st = "done" /\ Len(resp[r]) = 1)

\* C10 witness: a request whose vendor call ended without a response
\* (timeout) and a request refused by multer have both been answered once.
C10_Witness ==
    \E r1, r2 \in Requests :
        /\ rq[r1].vendor = "failure" /\ rq[r1].st = "done" /\ Len(resp[r1]) = 1
        /\ rq[r2].called = "none" /\ rq[r2].up.hasFile /\ rq[r2].st = "done"
        /\ Len(resp[r2]) = 1 /\ resp[r2][1].status = 400

---------------------------------------------------------------------------
(* The upload form (client/components/FileUpload.tsx) and the server's
   whitelist *)

\* the message the form shows, "null" when it takes the file
validateFile(file) ==
    LET maxFileSize == FILE_SIZE_LIMIT
        allowedTypes == {"image/jpeg", "image/png", "image/webp",
                         "video/mp4", "video/webm", "video/quicktime",
                         "audio/wav", "audio/mpeg", "audio/mp4", "audio/ogg"}
    IN  IF file.size > maxFileSize THEN "File size must be less than 10MB"
        ELSE IF file.type \notin allowedTypes THEN "File type not supported"
        ELSE "null"

\* a file of a mime type either side lists, or of none, around the size limit
FormInit ==
    /\ ServerInit({{}})
    /\ arg \in [type : ALL_SUPPORTED_TYPES
                        \cup {"video/quicktime", "audio/mpeg", "audio/mp4", "text/plain"},
                size : {0, 1, FILE_SIZE_LIMIT - 1, FILE_SIZE_LIMIT, FILE_SIZE_LIMIT + 1}]
    /\ ret = << >>

\* the file is offered to the form and, whatever the form says, to multer:
\* ret is the form's message and whether the fileSize limit and the type
\* test of the fileFilter let it through
ValidateFile ==
    /\ ret = << >>
    /\ ret' = << validateFile(arg),
                getFileCategory(arg.type) # "unsupported" /\ arg.size <= FILE_SIZE_LIMIT >>
    /\ UNCHANGED << server, arg, statusResp, client, db, ui >>

FormSpec == FormInit /\ [][ValidateFile]_vars

\* C16: a file passes validateFile of the upload form iff the server's
\* whitelist accepts it (supported category and at most 10 MB).
C16_SameUploadsAccepted ==
    ret # << >> => ((ret[1] = "null") <=> ret[2])

---------------------------------------------------------------------------
(* getConfidenceCategory on its own *)

\* the confidences 0%, 1%, ..., 100%
CategoryInit ==
    /\ ServerInit({{}})
    /\ arg \in {k * (SCALE \div 100) : k \in 0..100}
    /\ ret = "none"

ApplyConfidenceCategory ==
    /\ ret = "none"
    /\ ret' = getConfidenceCategory(arg)
    /\ UNCHANGED << server, arg, statusResp, client, db, ui >>

CategorySpec == CategoryInit /\ [][ApplyConfidenceCategory]_vars

\* C17: the confidenceCategory of an integer percentage is VERY_LOW for
\* 0-20%, LOW for 21-40%, MEDIUM for 41-60%, HIGH for 61-80% and VERY_HIGH
\* for 81-100%.
C17_DocumentedConfidenceBands ==
    ret # "none" =>
        ret = (IF arg * 100 <= 20 * SCALE THEN "VERY_LOW"
               ELSE IF arg * 100 <= 40 * SCALE THEN "LOW"
               ELSE IF arg * 100 <= 60 * SCALE THEN "MEDIUM"
               ELSE IF arg * 100 <= 80 * SCALE THEN "HIGH"
               ELSE "VERY_HIGH")

---------------------------------------------------------------------------
(* POST /api/analyze of one client over time (server/index.ts) *)

\* the documented limit: 15 analysis requests per 15 minutes
ANALYSIS_RATE_LIMIT == 15
RATE_WINDOW_MS == 900000

\* no request sent yet; arg is the times at which the server ran an analysis
RateInit ==
    /\ ServerInit({{}})
    /\ arg = << >>
    /\ ret = "none"

\* The route: express.json, the request middleware, upload.single and
\* handleAnalyze, with no limiter in front; the analysis runs unless the
\* middleware or multer refuses the request.
RatePost(u) ==
    /\ Len(arg) < MaxPosts
    /\ arg' = IF postAnalyze(env, now, 1, u, {}, {}, 0, 0).called # "none"
               THEN Append(arg, now)
               ELSE arg
    /\ UNCHANGED << server, ret, statusResp, client, db, ui >>

\* five minutes pass, until the first window is over
RateTick ==
    /\ now - BaseNow < RATE_WINDOW_MS
    /\ now' = now + RATE_WINDOW_MS \div 3
    /\ UNCHANGED << env, dirs, fs, rq, resp, fileOp, fileOps, helper >>

RateNext ==
    \/ \E u \in {UpImage, UpAudio,
                 Upload(TRUE, "text/plain", 1, Name_png, TRUE, "Mozilla/5.0", "")} :
          RatePost(u)
    \/ RateTick

RateSpec == RateInit /\ [][RateNext]_vars

\* C18: within any 15-minute window the server runs at most 15
\* POST /api/analyze requests of one client.
C18_AtMost15PerWindow ==
    \A i \in 1..Len(arg) :
        Cardinality({j \in 1..i : arg[i] - arg[j] < RATE_WINDOW_MS}) <= ANALYSIS_RATE_LIMIT

---------------------------------------------------------------------------
(* GET /api/files/:filename with parameters that leave the uploads directory *)

\* The disk holds any of: an upload, a file of the sibling directory
\* <cwd>/uploads-old, a file of <cwd> and a file of /tmp/uploads.
TraversalInit ==
    /\ env \in { {}, {"VERCEL"} }
    /\ now = BaseNow
    /\ dirs = {servedDir}
    /\ fs \in SUBSET {File("cwd/uploads", Name_png, BaseNow, 1, 1),
                      File("cwd/uploads-old", << "s" >>, BaseNow, 1, 0),
                      File("cwd", << "s" >>, BaseNow, 1, 0),
                      File("/tmp/uploads", Name_png, BaseNow, 1, 2)}
    /\ rq = [r \in Requests |-> NewRequest]
    /\ resp = [r \in Requests |-> << >>]
    /\ fileOp = NoOp
    /\ fileOps = 0
    /\ statusResp = NoStatus /\ client = NoClient /\ db = NoDb /\ ui = NoUi
    /\ arg = 0
    /\ ret = "none"

\* the parameters as they stand in the URL: an upload's name, a name no file
\* has, and names with encoded separators that lead back into uploads, up
\* to <cwd>, and into <cwd>/uploads-old
TraversalNext ==
    \E filename \in {Name_png, << "s" >>,
                     << "x", "/", ".", ".", "/" >> \o Name_png,
                     << ".", ".", "/", "s" >>,
                     << ".", ".", "/", "u", "p", "l", "o", "a", "d", "s", "-", "o", "l", "d", "/", "s" >>} :
        GetFile(encodeURIComponent(filename))

TraversalSpec == TraversalInit /\ [][TraversalNext]_vars

\* C19: GET /api/files/:filename answers 403 or 404, or serves a file that
\* lies directly inside <cwd>/uploads.
C19_ServesOnlyUploads ==
    fileOp.op = "get" =>
        \/ fileOp.status \in {403, 404}
        \/ /\ fileOp.status = 200
           /\ startsWith(servedPath(fileOp.filename), uploadsPath \o << "/" >>)

\* C20: in every successful result, riskLevel CRITICAL implies isDeepfake,
\* and isDeepfake implies riskLevel HIGH or CRITICAL.
C20_VerdictMatchesRisk ==
    \A r \in Requests : \A a \in Responses(r) :
        a.success =>
            /\ a.result.riskLevel = "CRITICAL" => a.result.isDeepfake
            /\ a.result.isDeepfake => a.result.riskLevel \in {"HIGH", "CRITICAL"}

\* C21: a demo result of an image or a video has a confidence in [0.7, 1.0)
\* with isDeepfake = true, or a confidence in [0.1, 0.5) with isDeepfake =
\* false, on every demo path.
C21_DemoScoreRanges ==
    \A r \in Requests : \A a \in Responses(r) :
        (a.success /\ a.result.analysisQuality = "DEMO" /\ a.result.type \in {"image", "video"}) =>
            \/ /\ a.result.confidence * 10 >= 7 * SCALE /\ a.result.confidence < SCALE
               /\ a.result.isDeepfake
            \/ /\ a.result.confidence * 10 >= SCALE /\ a.result.confidence * 10 < 5 * SCALE
               /\ ~a.result.isDeepfake

---------------------------------------------------------------------------
(* generateRecommendations on its own *)

\* the thresholds compared with > instead of >=
generateRecommendations_exclusive(confidence, riskLevel) ==
    IF confidence * 10 > 8 * SCALE
    THEN << "CRITICAL: Very high probability of deepfake detected",
            "Exercise extreme caution - this media is likely manipulated",
            "Verify source and context immediately",
            "Consider additional verification methods",
            "Document findings for security purposes" >>
    ELSE IF confidence * 10 > 6 * SCALE
    THEN << "HIGH: High probability of deepfake detected",
            "Approach with extreme caution",
            "Verify media source and authenticity thoroughly",
            "Look for additional verification clues",
            "Consider professional analysis if critical" >>
    ELSE IF confidence * 10 > 4 * SCALE
    THEN << "MEDIUM: Moderate manipulation indicators detected",
            "Some suspicious patterns identified",
            "Verify source and check for metadata inconsistencies",
            "Compare with known authentic versions if available",
            "Proceed with caution" >>
    ELSE IF confidence * 10 > 2 * SCALE
    THEN << "LOW: Minimal manipulation indicators",
            "Media appears mostly authentic",
            "Continue to verify source and context",
            "Monitor for any new detection methods" >>
    ELSE << "VERY LOW: No significant manipulation detected",
            "Media appears authentic based on current analysis",
            "Continue to verify source and context",
            "Monitor for any new detection methods" >>

\* the list pushed for a confidence; the riskLevel parameter is not read
generateRecommendations(confidence, riskLevel) ==
    IF confidence * 10 >= 8 * SCALE
    THEN << "CRITICAL: Very high probability of deepfake detected",
            "Exercise extreme caution - this media is likely manipulated",
            "Verify source and context immediately",
            "Consider additional verification methods",
            "Document findings for security purposes" >>
    ELSE IF confidence * 10 >= 6 * SCALE
    THEN << "HIGH: High probability of deepfake detected",
            "Approach with extreme caution",
            "Verify media source and authenticity thoroughly",
            "Look for additional verification clues",
            "Consider professional analysis if critical" >>
    ELSE IF confidence * 10 >= 4 * SCALE
    THEN << "MEDIUM: Moderate manipulation indicators detected",
            "Some suspicious patterns identified",
            "Verify source and check for metadata inconsistencies",
            "Compare with known authentic versions if available",
            "Proceed with caution" >>
    ELSE IF confidence * 10 >= 2 * SCALE
    THEN << "LOW: Minimal manipulation indicators",
            "Media appears mostly authentic",
            "Continue to verify source and context",
            "Monitor for any new detection methods" >>
    ELSE << "VERY LOW: No significant manipulation detected",
            "Media appears authentic based on current analysis",
            "Continue to verify source and context",
            "Monitor for any new detection methods" >>

\* a confidence of the grid and any riskLevel argument
RecommendInit ==
    /\ ServerInit({{}})
    /\ arg \in [confidence : RiskGrid, riskLevel : {"LOW", "MEDIUM", "HIGH", "CRITICAL"}]
    /\ ret = << >>

ApplyRecommendations ==
    /\ ret = << >>
    /\ ret' = generateRecommendations(arg.confidence, arg.riskLevel)
    /\ UNCHANGED << server, arg, statusResp, client, db, ui >>

RecommendSpec == RecommendInit /\ [][ApplyRecommendations]_vars

\* C22: the tier named in the first recommendation depends on the confidence
\* alone, changes exactly at 0.2, 0.4, 0.6 and 0.8, and agrees with
\* getRiskLevel: CRITICAL, HIGH and MEDIUM coincide, LOW and VERY LOW both
\* occur exactly when riskLevel is LOW.
C22_RecommendationsFollowRisk ==
    ret # << >> =>
        LET tier == CASE ret[1] = "CRITICAL: Very high probability of deepfake detected" -> "CRITICAL"
                      [] ret[1] = "HIGH: High probability of deepfake detected" -> "HIGH"
                      [] ret[1] = "MEDIUM: Moderate manipulation indicators detected" -> "MEDIUM"
                      [] ret[1] = "LOW: Minimal manipulation indicators" -> "LOW"
                      [] ret[1] = "VERY LOW: No significant manipulation detected" -> "VERY LOW"
                      [] OTHER -> "none"
        IN  /\ tier = (IF arg.confidence * 10 >= 8 * SCALE THEN "CRITICAL"
                       ELSE IF arg.confidence * 10 >= 6 * SCALE THEN "HIGH"
                       ELSE IF arg.confidence * 10 >= 4 * SCALE THEN "MEDIUM"
                       ELSE IF arg.confidence * 10 >= 2 * SCALE THEN "LOW"
                       ELSE "VERY LOW")
            /\ tier \in {"CRITICAL", "HIGH", "MEDIUM"} => tier = getRiskLevel(arg.confidence)
            /\ tier \in {"LOW", "VERY LOW"} <=> getRiskLevel(arg.confidence) = "LOW"
            /\ ret = generateRecommendations(arg.confidence, getRiskLevel(arg.confidence))

\* C22 witness: exactly 0.2 was given with a riskLevel argument of CRITICAL
\* and the list starts with the LOW entry.
C22_Witness ==
    /\ ret # << >>
    /\ arg.confidence * 10 = 2 * SCALE /\ arg.riskLevel = "CRITICAL"
    /\ ret[1] = "LOW: Minimal manipulation indicators"

---------------------------------------------------------------------------
(* analyzeVideo from the vendor's answer to the result, on its own *)

\* what axios.post ends with: a body with or without a summary score and
\* with up to MaxFrames frames, each with or without a score; a body whose
\* status is not success; an error
AggregateInit ==
    /\ ServerInit({{"SIGHTENGINE_USER", "SIGHTENGINE_SECRET"}})
    /\ arg \in {Outcome("response", "success", p, t, f, 200) :
                    p \in VendorScores \cup {NoNum}, t \in VendorScores \cup {NoNum},
                    f \in FrameSeqs}
                \cup {Outcome("response", "failure", NoNum, NoNum, << >>, 200),
                      TimeoutOutcome}
    /\ ret = << >>

\* the rest of analyzeVideo and of handleAnalyze: ret is the response sent
ApplyVideoEnd ==
    /\ ret = << >>
    /\ ret' = analyzeVideoEnd(storedFile(env, now, UpVideo), arg, 0, 0)
    /\ UNCHANGED << server, arg, statusResp, client, db, ui >>

AggregateSpec == AggregateInit /\ [][ApplyVideoEnd]_vars

\* C23: in API mode the confidence of a video result is at least every frame
\* score (a frame without a score counting as 0) and the summary score, is
\* one of them when any is present, and is 0 when there is none.
C23_VideoConfidenceIsMaximum ==
    (ret # << >> /\ ret[1].success /\ ret[1].result.analysisQuality = "API") =>
        LET scores == {IF arg.frames[i] = NoNum THEN 0 ELSE arg.frames[i] :
                          i \in 1..Len(arg.frames)}
                      \cup (IF arg.prob # NoNum THEN {arg.prob}
                            ELSE IF arg.typeDeepfake # NoNum THEN {arg.typeDeepfake}
                            ELSE {})
        IN  /\ \A s \in scores : ret[1].result.confidence >= s
            /\ scores # {} => ret[1].result.confidence \in scores
            /\ scores = {} => ret[1].result.confidence = 0

\* C23 witness: an API result of a response with a frame without a score, a
\* frame whose score is above the summary score, and the summary score.
C23_Witness ==
    /\ ret # << >> /\ ret[1].success /\ ret[1].result.analysisQuality = "API"
    /\ Len(arg.frames) = 2 /\ arg.frames[1] = NoNum /\ arg.frames[2] > arg.prob
    /\ arg.prob > 0
    /\ ret[1].result.confidence = arg.frames[2]

---------------------------------------------------------------------------
(* FileUpload: the user's clicks, the request and the timers *)

\* handleFileSelect / handleDrop with a file validateFile takes
HandleFileSelect ==
    /\ ui' = [ui EXCEPT !.file = TRUE, !.error = "null"]
    /\ UNCHANGED << server, arg, ret, statusResp, client, db >>

\* the Remove File button, shown while a file is selected
RemoveFile ==
    /\ ui.file
    /\ ui' = [ui EXCEPT !.file = FALSE, !.error = "null", !.progress = 0,
                        !.analysisStage = "idle", !.resetBy = 0, !.retryCount = 0]
    /\ UNCHANGED << server, arg, ret, statusResp, client, db >>

\* the Analyze File button, rendered when file && !isAnalyzing
HandleAnalyze ==
    /\ ui.started < MaxAttempts
    /\ ui.file /\ ~ui.isAnalyzing
    /\ ui' = performAnalysis(ui, ui.retryCount)
    /\ UNCHANGED << server, arg, ret, statusResp, client, db >>

\* the Try Again button of InlineError, rendered when error is set and
\* retryCount < maxRetries; retryAnalysis calls performAnalysis of the
\* render it was created in
RetryAnalysis ==
    /\ ui.started < MaxAttempts
    /\ ui.error # "null" /\ ui.retryCount < maxRetries
    /\ ui' = IF ui.file /\ ui.retryCount < maxRetries
             THEN performAnalysis([ui EXCEPT !.retryCount = ui.retryCount + 1], ui.retryCount)
             ELSE ui
    /\ UNCHANGED << server, arg, ret, statusResp, client, db >>

\* the 200 ms interval of call a fires
UploadInterval(a) ==
    /\ a \in ui.intervals
    /\ ui' = IF ui.progress >= 90
             THEN [ui EXCEPT !.intervals = ui.intervals \ {a}, !.progress = 90]
             ELSE [ui EXCEPT !.progress = ui.progress + 10]
    /\ UNCHANGED << server, arg, ret, statusResp, client, db >>

\* fetch of call a settles: it rejects ("network"), or resolves with a
\* status that is not ok ("http"), or with an ok status ("ok")
FetchSettled(a, outcome) ==
    /\ ui.att[a].stage = "fetch"
    /\ ui' = CASE outcome = "network" -> performAnalysis_catch(ui, a)
               [] outcome = "http" ->
                    performAnalysis_catch([ui EXCEPT !.intervals = ui.intervals \ {a}], a)
               [] outcome = "ok" ->
                    [ui EXCEPT !.intervals = ui.intervals \ {a}, !.progress = 100,
                               !.analysisStage = "processing", !.resetBy = 0,
                               !.att[a].stage = "json"]
    /\ UNCHANGED << server, arg, ret, statusResp, client, db >>

\* response.json() of call a settles with a body whose success is given
JsonSettled(a, success) ==
    /\ ui.att[a].stage = "json"
    /\ ui' = IF success THEN [ui EXCEPT !.att[a].stage = "delay"]
             ELSE performAnalysis_catch(ui, a)
    /\ UNCHANGED << server, arg, ret, statusResp, client, db >>

\* the 500 ms, 1200 ms and 300 ms timers of call a, one after the other
CompletionTimer(a) ==
    /\ ui.att[a].stage \in {"delay", "complete", "reset"}
    /\ ui' = CASE ui.att[a].stage = "delay" ->
                    [ui EXCEPT !.analysisStage = "complete", !.resetBy = 0,
                               !.att[a].stage = "complete"]
               [] ui.att[a].stage = "complete" ->
                    \* setIsAnalyzing(false); onAnalysisComplete(result)
                    [ui EXCEPT !.isAnalyzing = FALSE, !.page = FALSE,
                               !.att[a].stage = "reset"]
               [] ui.att[a].stage = "reset" ->
                    [ui EXCEPT !.progress = 0, !.analysisStage = "idle", !.resetBy = a,
                               !.att[a] = [stage |-> "over", retryCount |-> 0]]
    /\ UNCHANGED << server, arg, ret, statusResp, client, db >>

UploadInit ==
    /\ ServerInit({{}})
    /\ arg = 0
    /\ ret = "none"

UploadNext ==
    \/ HandleFileSelect
    \/ RemoveFile
    \/ HandleAnalyze
    \/ RetryAnalysis
    \/ \E a \in 1..MaxAttempts : UploadInterval(a)
    \/ \E a \in 1..MaxAttempts, outcome \in {"network", "http", "ok"} : FetchSettled(a, outcome)
    \/ \E a \in 1..MaxAttempts, success \in BOOLEAN : JsonSettled(a, success)
    \/ \E a \in 1..MaxAttempts : CompletionTimer(a)

UploadSpec == UploadInit /\ [][UploadNext]_vars

\* every request settles and every timer that was set fires
UploadLiveSpec ==
    /\ UploadSpec
    /\ \A a \in 1..MaxAttempts :
          /\ WF_vars(\E outcome \in {"network", "http", "ok"} : FetchSettled(a, outcome))
          /\ WF_vars(\E success \in BOOLEAN : JsonSettled(a, success))
          /\ WF_vars(CompletionTimer(a))
          /\ WF_vars(UploadInterval(a))

\* C24: after onAnalysisStart() the page's isAnalyzing flag eventually
\* returns to false.
C24_PageFlagReturns == ui.page ~> ~ui.page

\* C25: after a failed attempt progress stays 0 and analysisStage stays
\* 'idle' until the next attempt begins; while an attempt is in flight
\* analysisStage is not 'idle' by the reset timer of another attempt;
\* progress is within 0..100.
C25_StaleTimersHarmless ==
    /\ (ui.error \in {"retry", "final"} /\ ~ui.isAnalyzing) =>
          (ui.progress = 0 /\ ui.analysisStage = "idle")
    /\ \A a \in 1..MaxAttempts :
          ui.att[a].stage \in {"fetch", "json", "delay", "complete"} =>
              ~(ui.analysisStage = "idle" /\ ui.resetBy \notin {0, a})
    /\ ui.progress \in 0..100

\* C26: once retryCount has reached maxRetries and the last attempt has
\* failed, no analysis request is started while the file stays selected.
C26_RetriesBounded ==
    [][(ui.file /\ ui.retryCount >= maxRetries /\ ui.error # "null" /\ ~ui.isAnalyzing)
          => ui'.started = ui.started]_vars

---------------------------------------------------------------------------
(* AuthProvider (client/contexts/AuthContext.tsx), the routes of App.tsx
   and can_user_analyze of database_schema.sql *)

\* monthly_analyses of the rows of subscription_limits
monthly_analyses(tier) ==
    CASE tier = "free" -> FREE_MONTHLY_ANALYSES
      [] tier = "pro" -> 500
      [] tier = "enterprise" -> NoNum

\* the limit compared with <= instead of <
can_user_analyze_inclusive(d) ==
    LET user_tier == IF d.tier = "null" THEN "free" ELSE d.tier
        tier_limit == IF user_tier \in d.rows THEN monthly_analyses(user_tier) ELSE 10
    IN  tier_limit = NoNum \/ d.usage <= tier_limit

\* public.can_user_analyze for the user whose profile has tier d.tier ("null"
\* for none), with the rows d.rows in subscription_limits and d.usage rows
\* of this month in user_usage
can_user_analyze(d) ==
    LET user_tier == IF d.tier = "null" THEN "free" ELSE d.tier
        tier_limit == IF user_tier \in d.rows THEN monthly_analyses(user_tier) ELSE 10
    IN  tier_limit = NoNum \/ d.usage < tier_limit

\* ProtectedRoute without the loading check
AppRoutes_noSpinner(configured, loading, user, path) ==
    IF ~configured THEN [element |-> "SetupGuide", to |-> ""]
    ELSE IF path \in {"/", "/login", "/signup"}
    THEN \* PublicRoute
         IF loading THEN [element |-> "Loading", to |-> ""]
         ELSE IF user # 0 THEN [element |-> "Navigate", to |-> "/dashboard"]
         ELSE [element |-> CASE path = "/" -> "Landing" [] path = "/login" -> "Login"
                             [] path = "/signup" -> "Signup",
               to |-> ""]
    ELSE IF path = "/pricing" THEN [element |-> "Pricing", to |-> ""]
    ELSE IF path \in {"/dashboard", "/results", "/history"}
    THEN IF user # 0
         THEN [element |-> CASE path = "/dashboard" -> "Dashboard"
                             [] path = "/results" -> "AnalysisResults"
                             [] path = "/history" -> "AnalysisHistory",
               to |-> ""]
         ELSE [element |-> "Navigate", to |-> "/login"]
    ELSE [element |-> "NotFound", to |-> ""]

\* what AppRoutes renders at a path: an element, or a Navigate to a path
AppRoutes(configured, loading, user, path) ==
    IF ~configured THEN [element |-> "SetupGuide", to |-> ""]
    ELSE IF path \in {"/", "/login", "/signup"}
    THEN \* PublicRoute
         IF loading THEN [element |-> "Loading", to |-> ""]
         ELSE IF user # 0 THEN [element |-> "Navigate", to |-> "/dashboard"]
         ELSE [element |-> CASE path = "/" -> "Landing" [] path = "/login" -> "Login"
                             [] path = "/signup" -> "Signup",
               to |-> ""]
    ELSE IF path = "/pricing" THEN [element |-> "Pricing", to |-> ""]
    ELSE IF path \in {"/dashboard", "/results", "/history"}
    THEN \* ProtectedRoute
         IF loading THEN [element |-> "Loading", to |-> ""]
         ELSE IF user # 0
         THEN [element |-> CASE path = "/dashboard" -> "Dashboard"
                             [] path = "/results" -> "AnalysisResults"
                             [] path = "/history" -> "AnalysisHistory",
               to |-> ""]
         ELSE [element |-> "Navigate", to |-> "/login"]
    ELSE [element |-> "NotFound", to |-> ""]

\* React renders the routes again after a state change; a Navigate replaces
\* the location and the routes are rendered at the new one. from is the
\* path the latest render navigated away from, "" when it rendered in place.
render(c) ==
    LET e == AppRoutes(c.configured, c.loading, c.user, c.path)
    IN  IF e.element = "Navigate"
        THEN [c EXCEPT !.path = e.to, !.from = c.path,
                       !.shown = AppRoutes(c.configured, c.loading, c.user, e.to).element]
        ELSE [c EXCEPT !.shown = e.element, !.from = ""]

\* the effect on [user] with a user: refreshProfile() and refreshUsage() are
\* called and reach their first await
userEffect(c) ==
    IF c.user = 0 THEN c
    ELSE [c EXCEPT !.signIns = c.signIns + 1,
                   !.pp[c.signIns + 1] = "getUserProfile",
                   !.pu[c.signIns + 1] = "getMonthlyUsage"]

\* the routes of App.tsx and a path none of them matches
Paths == {"/", "/login", "/signup", "/pricing", "/dashboard", "/results", "/history",
          "/nowhere"}

\* AuthProvider and the routes after mount: isSupabaseConfigured or not, a
\* stored session (db.user) or none, a profile tier, the rows of
\* subscription_limits, a usage count; the visitor opened any path.
AuthInit ==
    /\ env = {} /\ now = BaseNow /\ dirs = {} /\ fs = {}
    /\ rq = [r \in Requests |-> NewRequest]
    /\ resp = [r \in Requests |-> << >>]
    /\ fileOp = NoOp /\ fileOps = 0
    /\ statusResp = NoStatus /\ ui = NoUi
    /\ arg = 0 /\ ret = "none"
    /\ db \in [user : {0, 1}, tier : {"null", "free", "pro", "enterprise"},
               rows : {{}, {"free", "pro", "enterprise"}}, usage : {9, 10, 500}]
    /\ \E configured \in BOOLEAN,
          path \in Paths :
          client = render([monthlyUsage |-> 0, usageLimit |-> 10, performed |-> 0,
                           configured |-> configured, loading |-> configured,
                           user |-> 0, profile |-> "null", signedOut |-> FALSE,
                           sessionLoaded |-> ~configured, signIns |-> 0,
                           pp |-> [s \in 1..MaxSignIns |-> "none"],
                           pu |-> [s \in 1..MaxSignIns |-> "none"],
                           path |-> path, shown |-> "", from |-> ""])

\* supabase.auth.getSession() resolves with the session the library holds
SessionLoaded ==
    /\ client.configured /\ ~client.sessionLoaded
    /\ db.user # 0 => client.signIns < MaxSignIns
    /\ client' = render(userEffect([client EXCEPT !.user = db.user, !.loading = FALSE,
                                                  !.sessionLoaded = TRUE]))
    /\ UNCHANGED << server, arg, ret, statusResp, db, ui >>

\* The library signs user u in (u > 0) or out (u = 0) and the callback of
\* onAuthStateChange runs. Its refreshProfile and refreshUsage are the ones
\* of the first render, where user is null, and return at once.
OnAuthStateChange(u) ==
    /\ client.configured
    /\ u # 0 => client.signIns < MaxSignIns
    /\ db' = [db EXCEPT !.user = u]
    /\ client' = render(IF u # 0
                        THEN userEffect([client EXCEPT !.user = u, !.loading = FALSE,
                                                       !.signedOut = FALSE])
                        ELSE [client EXCEPT !.user = 0, !.loading = FALSE,
                                            !.profile = "null", !.monthlyUsage = 0,
                                            !.usageLimit = 10, !.signedOut = TRUE])
    /\ UNCHANGED << server, arg, ret, statusResp, ui >>

\* getUserProfile of call s resolves: with an error, or with the profile row
ProfileLoaded(s, ok) ==
    /\ client.pp[s] = "getUserProfile"
    /\ client' = render(IF ~ok THEN [client EXCEPT !.pp[s] = "failed"]
                        ELSE [client EXCEPT !.profile = IF db.tier = "null" THEN "row"
                                                        ELSE db.tier,
                                            !.pp[s] = IF db.tier = "null" THEN "done"
                                                      ELSE "getSubscriptionLimits"])
    /\ UNCHANGED << server, arg, ret, statusResp, db, ui >>

\* getSubscriptionLimits of call s resolves: with no data, or with the row
LimitsLoaded(s, ok) ==
    /\ client.pp[s] = "getSubscriptionLimits"
    /\ client' = render(IF ok /\ db.tier \in db.rows
                        THEN [client EXCEPT !.usageLimit = monthly_analyses(db.tier),
                                            !.pp[s] = "done"]
                        ELSE [client EXCEPT !.pp[s] = IF ok THEN "done" ELSE "failed"])
    /\ UNCHANGED << server, arg, ret, statusResp, db, ui >>

\* getMonthlyUsage of call s resolves
UsageLoaded(s, ok) ==
    /\ client.pu[s] = "getMonthlyUsage"
    /\ client' = render([refreshUsage(client, db, ok)
                            EXCEPT !.pu[s] = IF ok THEN "done" ELSE "failed"])
    /\ UNCHANGED << server, arg, ret, statusResp, db, ui >>

\* the visitor opens a path
GoTo(path) ==
    /\ client' = render([client EXCEPT !.path = path])
    /\ UNCHANGED << server, arg, ret, statusResp, db, ui >>

AuthNext ==
    \/ SessionLoaded
    \/ \E u \in {0, 1} : OnAuthStateChange(u)
    \/ \E s \in 1..MaxSignIns, ok \in BOOLEAN : ProfileLoaded(s, ok)
    \/ \E s \in 1..MaxSignIns, ok \in BOOLEAN : LimitsLoaded(s, ok)
    \/ \E s \in 1..MaxSignIns, ok \in BOOLEAN : UsageLoaded(s, ok)
    \/ \E path \in Paths : GoTo(path)

AuthSpec == AuthInit /\ [][AuthNext]_vars

\* C27: after a sign-out event has been processed, profile is null,
\* monthlyUsage is 0 and usageLimit is 10 until the next sign-in.
C27_SignedOutStateIsClean ==
    client.signedOut =>
        (client.profile = "null" /\ client.monthlyUsage = 0 /\ client.usageLimit = 10)

\* C28: once the profile, the limits and the usage of a signed-in user have
\* been loaded, canAnalyze of the client equals can_user_analyze of the
\* database: true iff the limit is -1 or the usage is below it, with the
\* free limit of 10 when no tier or no limit row is known.
C28_SameDecision ==
    (client.user # 0 /\ client.signIns = 1
     /\ client.pp[1] = "done" /\ client.pu[1] = "done") =>
        /\ canAnalyze(client) <=> can_user_analyze(db)
        /\ can_user_analyze(db) <=>
              LET limit == IF db.tier \in db.rows THEN monthly_analyses(db.tier)
                           ELSE IF db.tier = "null" /\ "free" \in db.rows
                           THEN monthly_analyses("free")
                           ELSE 10
              IN  limit = 0 - 1 \/ db.usage < limit

\* C28 witness: a pro user with 500 analyses this month has been loaded, and
\* both sides refuse.
C28_Witness ==
    /\ client.user # 0 /\ client.signIns = 1
    /\ client.pp[1] = "done" /\ client.pu[1] = "done"
    /\ db.tier = "pro" /\ db.rows # {} /\ db.usage = 500
    /\ client.usageLimit = 500 /\ client.monthlyUsage = 500
    /\ ~canAnalyze(client) /\ ~can_user_analyze(db)

\* C29: a protected page is shown only when loading is false and a user is
\* signed in; while loading, a guarded route shows neither its page nor a
\* redirect; a signed-out visitor is sent from a protected route to /login
\* and a signed-in visitor from /, /login or /signup to /dashboard; without
\* a Supabase configuration every route shows the setup guide.
C29_RouteGuards ==
    /\ client.shown \in {"Dashboard", "AnalysisResults", "AnalysisHistory"} =>
          (client.configured /\ ~client.loading /\ client.user # 0)
    /\ (client.configured /\ client.loading
        /\ client.path \in {"/", "/login", "/signup", "/dashboard", "/results", "/history"}) =>
          (client.shown = "Loading" /\ client.from = "")
    /\ (client.configured /\ ~client.loading /\ client.user = 0) =>
          /\ client.path \notin {"/dashboard", "/results", "/history"}
          /\ client.from # "" =>
                (client.from \in {"/dashboard", "/results", "/history"}
                 /\ client.path = "/login" /\ client.shown = "Login")
    /\ (client.configured /\ ~client.loading /\ client.user # 0) =>
          /\ client.path \notin {"/", "/login", "/signup"}
          /\ client.from # "" =>
                (client.from \in {"/", "/login", "/signup"}
                 /\ client.path = "/dashboard" /\ client.shown = "Dashboard")
    /\ ~client.configured => (client.shown = "SetupGuide" /\ client.from = "")

\* C29 witness: a signed-out visitor of /history has been sent to /login.
C29_Witness ==
    /\ client.configured /\ ~client.loading /\ client.user = 0
    /\ client.from = "/history" /\ client.path = "/login" /\ client.shown = "Login"

---------------------------------------------------------------------------
(* Dashboard.handleAnalysisComplete (client/pages/Signup.tsx) *)

\* latestResult null
NoLatest == [id |-> 0, type |-> "none"]

\* setLatestResult(result); setShowSuccessModal(true); setTimeout(navigate, 2000)
showSuccess(c) ==
    [c EXCEPT !.latestResult = c.cur, !.showSuccessModal = TRUE, !.pc = "timer"]

\* The Dashboard of a signed-in user after mount, localStorage without
\* 'analysisResults', and what the handler has done (ghost fields): cur the
\* result it was called with, completed the calls so far, save and track the
\* outcomes of its two awaits, refreshed whether it called refreshUsage.
DashInit ==
    /\ env = {} /\ now = BaseNow /\ dirs = {} /\ fs = {}
    /\ rq = [r \in Requests |-> NewRequest]
    /\ resp = [r \in Requests |-> << >>]
    /\ fileOp = NoOp /\ fileOps = 0
    /\ statusResp = NoStatus /\ ui = NoUi
    /\ arg = 0 /\ ret = "none"
    /\ db = [NoDb EXCEPT !.user = 1]
    /\ client = [monthlyUsage |-> 0, usageLimit |-> 10, performed |-> 0,
                 results |-> << >>, isAnalyzing |-> FALSE, showSuccessModal |-> FALSE,
                 latestResult |-> NoLatest, localStorage |-> << >>,
                 location |-> "/dashboard",
                 state |-> [results |-> << >>, currentResult |-> NoLatest],
                 pc |-> "idle", cur |-> NoLatest, completed |-> 0,
                 save |-> "none", track |-> "none", refreshed |-> FALSE]

\* handleAnalysisStart
HandleAnalysisStart ==
    /\ client.pc = "idle" /\ client.location = "/dashboard"
    /\ ~client.isAnalyzing
    /\ client.completed < MaxCompleted
    /\ client' = [client EXCEPT !.isAnalyzing = TRUE]
    /\ UNCHANGED << server, arg, ret, statusResp, db, ui >>

\* handleAnalysisComplete up to its first await
HandleAnalysisComplete(type) ==
    /\ client.pc = "idle" /\ client.location = "/dashboard"
    /\ client.isAnalyzing
    /\ LET result == [id |-> client.completed + 1, type |-> type]
           newResults == << result >> \o client.results
       IN  client' = [client EXCEPT !.results = newResults, !.isAnalyzing = FALSE,
                                    !.localStorage = newResults,
                                    !.cur = result, !.completed = client.completed + 1,
                                    !.save = "none", !.track = "none",
                                    !.refreshed = FALSE, !.pc = "save"]
    /\ UNCHANGED << server, arg, ret, statusResp, db, ui >>

\* await saveAnalysisToHistory rejects and nothing catches it
SaveSettled_uncaught(outcome) ==
    /\ client.pc = "save"
    /\ db' = IF outcome = "throw" THEN db
             ELSE saveAnalysisToHistory(db, << "a" >>, outcome = "error")
    /\ client' = [client EXCEPT !.save = outcome,
                                !.pc = IF outcome = "throw" THEN "idle" ELSE "track"]
    /\ UNCHANGED << server, arg, ret, statusResp, ui >>

\* await saveAnalysisToHistory settles: a row ("ok"), {error} ("error") or a
\* rejection ("throw"); the error is logged, the rejection caught
SaveSettled(outcome) ==
    /\ client.pc = "save"
    /\ db' = IF outcome = "throw" THEN db
             ELSE saveAnalysisToHistory(db, << "a" >>, outcome = "error")
    /\ client' = [client EXCEPT !.save = outcome, !.pc = "track"]
    /\ UNCHANGED << server, arg, ret, statusResp, ui >>

\* await trackAnalysis settles: without an error refreshUsage() is called,
\* otherwise the handler goes on to the modal
TrackSettled(outcome) ==
    /\ client.pc = "track"
    /\ db' = trackAnalysis(db, outcome = "ok")
    /\ client' = IF outcome = "ok"
                 THEN [client EXCEPT !.track = outcome, !.refreshed = TRUE,
                                     !.pc = "refresh"]
                 ELSE showSuccess([client EXCEPT !.track = outcome])
    /\ UNCHANGED << server, arg, ret, statusResp, ui >>

\* await refreshUsage() settles
RefreshSettled(ok) ==
    /\ client.pc = "refresh"
    /\ client' = showSuccess(refreshUsage(client, db, ok))
    /\ UNCHANGED << server, arg, ret, statusResp, db, ui >>

\* the 2000 ms timer: navigate('/results', {state: {results, currentResult}})
NavigateTimer ==
    /\ client.pc = "timer"
    /\ client' = [client EXCEPT !.location = "/results",
                                !.state = [results |-> client.localStorage,
                                           currentResult |-> client.cur],
                                !.pc = "idle"]
    /\ UNCHANGED << server, arg, ret, statusResp, db, ui >>

\* the user comes back to /dashboard: a new Dashboard is mounted
BackToDashboard ==
    /\ client.pc = "idle" /\ client.location = "/results"
    /\ client' = [client EXCEPT !.location = "/dashboard", !.results = << >>,
                                !.isAnalyzing = FALSE, !.showSuccessModal = FALSE,
                                !.latestResult = NoLatest]
    /\ UNCHANGED << server, arg, ret, statusResp, db, ui >>

DashNext ==
    \/ HandleAnalysisStart
    \/ \E type \in {"image", "video", "audio"} : HandleAnalysisComplete(type)
    \/ \E outcome \in {"ok", "error", "throw"} : SaveSettled(outcome)
    \/ \E outcome \in {"ok", "error", "throw"} : TrackSettled(outcome)
    \/ \E ok \in BOOLEAN : RefreshSettled(ok)
    \/ NavigateTimer
    \/ BackToDashboard

DashSpec == DashInit /\ [][DashNext]_vars

\* every await settles and the timer fires
DashLiveSpec ==
    /\ DashSpec
    /\ WF_vars(\E outcome \in {"ok", "error", "throw"} : SaveSettled(outcome))
    /\ WF_vars(\E outcome \in {"ok", "error", "throw"} : TrackSettled(outcome))
    /\ WF_vars(\E ok \in BOOLEAN : RefreshSettled(ok))
    /\ WF_vars(NavigateTimer)

\* the handler has been called with the result of id n and has not finished
handling(n) == client.cur.id = n /\ client.pc # "idle"

\* the result of id n has been navigated to
navigated(n) ==
    /\ client.cur.id = n /\ client.pc = "idle"
    /\ client.location = "/results"
    /\ client.state.currentResult = client.cur
    /\ Head(client.state.results) = client.cur
    /\ client.showSuccessModal /\ client.latestResult = client.cur

\* C30: whatever saveAnalysisToHistory and trackAnalysis do (succeed, return
\* an error, throw), the new result is first in results and in localStorage
\* from the start of the handler, the success modal shows it once the two
\* calls have settled, and the navigation to /results with it follows;
\* refreshUsage is called only after trackAnalysis returned without an error.
C30_PersistenceIsNonCritical ==
    /\ [](client.pc # "idle" =>
            /\ client.results # << >> /\ Head(client.results) = client.cur
            /\ client.localStorage = client.results)
    /\ [](client.pc = "timer" =>
            (client.showSuccessModal /\ client.latestResult = client.cur))
    /\ [](client.refreshed => client.track = "ok")
    /\ \A n \in 1..(MaxCompleted + 1) : handling(n) ~> navigated(n)

\* C30 witness: the save threw, the tracking returned an error, and the
\* result is in the list, in localStorage, in the modal and navigated to.
C30_Witness ==
    /\ navigated(1)
    /\ client.save = "throw" /\ client.track = "error"
    /\ Head(client.results) = client.cur /\ client.localStorage = client.results
    /\ ~client.refreshed /\ db.history = {} /\ db.usage = 0

====
